---------------------------- MODULE Spec2Model ----------------------------
(***************************************************************************)
(* Model of the segmented-batch translation pipeline of pdf_translator:     *)
(*   translator.py / translator_doubao.py   main batch loops                *)
(*   retranslate_batch.py / retranslate_diff_batches.py   re-translation    *)
(*   chapter_translation_agent_cn.py        chapter loop and its glossary   *)
(* Texts are sequences of one-character strings, so that the stitcher, the  *)
(* segmenter and the validator are computed as the code computes them.      *)
(***************************************************************************)
EXTENDS Integers, Sequences, FiniteSets, TLC

VARIABLES
    st_text,      \* stitcher: raw text of the current batch
    st_next,      \* stitcher: raw text of the next batch
    st_out,       \* stitcher: NoCall, or [impl, arg, result] of the last call
    vl_n,         \* validator: number of <cN> tags of tagged_eng (input segments)
    vl_resp,      \* validator: llm_out, the tagged units of the oracle response
    vl_out,       \* validator: NoCall, or the outcome of the validation block
    cl_max,       \* call_llm: max_retries
    cl_attempt,   \* call_llm: the loop variable attempt
    cl_pc,        \* call_llm: "loop", "returned" or "raised"
    cl_requests,  \* call_llm: number of requests.post calls made
    cl_log,       \* call_llm: what each request came to, in order
    cl_sleeps,    \* call_llm: the wait_time of each time.sleep, in order
    rn_prog,      \* batch loop: "translator" (translator.py) or "doubao"
    rn_raw,       \* batch loop: per batch, whether its raw text is blank
    rn_disk0,     \* batch loop: the batch artifacts as the run found them
    rn_disk,      \* batch loop: the batch artifacts batch_NNN.md
    rn_style,     \* batch loop: style_cache
    rn_k,         \* batch loop: batch_num
    rn_pc,        \* batch loop: "loop", "style_call", "translate_call", "done"
    rn_MISSING,   \* batch loop: MISSING_DICT
    rn_WARNING,   \* batch loop: WARNING_DICT
    rn_parts,     \* batch loop: big_md_parts
    rn_events,    \* batch loop: starts, oracle calls and artifact writes, in order
    rn_inflight,  \* batch loop: the batches with an oracle call not yet returned
    rn_outcome,   \* batch loop: per batch, how the loop left it
    rn_doc,       \* batch loop: the assembled document
    rn_report,    \* batch loop: translation_report.txt
    rn_retry,     \* batch loop: failed_batches of retry_config.json
    rt_tool,      \* tools: which program runs
    rt_platform,  \* tools: "posix" or "windows"
    rt_glossfile, \* tools: the glossary file
    rt_glossary,  \* tools: the dict glossary
    rt_artifact,  \* tools: the files batch_NNN.md (chapter files)
    rt_backup,    \* tools: the files batch_NNN.md.backup
    rt_raw,       \* tools: per batch, whether its raw text file exists
    rt_style,     \* tools: style_cache of the chapter agent
    rt_pc,        \* tools: where the program is
    rt_k,         \* tools: batch_num of the running call (the chapter)
    rt_count,     \* tools: calls of retranslate_batch made
    rt_success,   \* tools: success_count
    rt_call,      \* tools: the last call: batch, artifact at entry, status
    rt_body,      \* tools: cn_body of the running call
    rt_doc,       \* tools: the merged document
    rt_request,   \* tools: the glossary block of the request being made
    mg_tool,      \* merge: "merge_md" (merge_md.py) or "merge_markdown"
    mg_dir,       \* merge: the files of the chap_md directory
    mg_doc,       \* merge: the assembled document
    sg_impl,      \* segmenter: "translator" or "doubao"
    sg_text,      \* segmenter: the batch text
    sg_out,       \* segmenter: NoCall, or the tagged units returned
    rc_tool,      \* raw cache: the re-translation tool run after translator.py
    rc_pages,     \* raw cache: the text of the pages of each batch
    rc_dir,       \* raw cache: the files of raw_content, [name, text]
    rc_k,         \* raw cache: batch_num of the loop of translator.py
    rc_pc,        \* raw cache: "main_run", "retranslate" or "idle"
    rc_sent,      \* raw cache: per batch, tagged_eng as translator.py sent it
    rc_resent,    \* raw cache: the last retranslate_batch call
    pg_total,     \* page ranges: total_pages
    pg_per_batch, \* page ranges: PAGES_PER_BATCH
    pg_k,         \* page ranges: batch_num of the loop
    pg_pc,        \* page ranges: "loop", "done" or "idle"
    pg_ranges,    \* page ranges: <<p_start, p_end>> of the batches so far
    pg_failed,    \* page ranges: the batches that failed
    pg_retry      \* page ranges: failed_batches of retry_config.json

vars_st == <<st_text, st_next, st_out>>

vars_vl == <<vl_n, vl_resp, vl_out>>

vars_cl == <<cl_max, cl_attempt, cl_pc, cl_requests, cl_log, cl_sleeps>>

vars_rn ==
    <<rn_prog, rn_raw, rn_disk0, rn_disk, rn_style, rn_k, rn_pc, rn_MISSING,
      rn_WARNING, rn_parts, rn_events, rn_inflight, rn_outcome, rn_doc, rn_report,
      rn_retry>>

vars_rt ==
    <<rt_tool, rt_platform, rt_glossfile, rt_glossary, rt_artifact, rt_backup,
      rt_raw, rt_style, rt_pc, rt_k, rt_count, rt_success, rt_call, rt_body,
      rt_doc, rt_request>>

\* what the steps of one part of the program leave alone
vars_mg == <<mg_tool, mg_dir, mg_doc>>

vars_sg == <<sg_impl, sg_text, sg_out>>

vars_rc == <<rc_tool, rc_pages, rc_dir, rc_k, rc_pc, rc_sent, rc_resent>>

vars_pg ==
    <<pg_total, pg_per_batch, pg_k, pg_pc, pg_ranges, pg_failed, pg_retry>>

others_st ==
    <<vars_vl, vars_cl, vars_rn, vars_rt, vars_mg, vars_sg, vars_rc,
      vars_pg>>

others_vl ==
    <<vars_st, vars_cl, vars_rn, vars_rt, vars_mg, vars_sg, vars_rc,
      vars_pg>>

others_cl ==
    <<vars_st, vars_vl, vars_rn, vars_rt, vars_mg, vars_sg, vars_rc,
      vars_pg>>

others_rn ==
    <<vars_st, vars_vl, vars_cl, vars_rt, vars_mg, vars_sg, vars_rc,
      vars_pg>>

others_rt ==
    <<vars_st, vars_vl, vars_cl, vars_rn, vars_mg, vars_sg, vars_rc,
      vars_pg>>

others_mg ==
    <<vars_st, vars_vl, vars_cl, vars_rn, vars_rt, vars_sg, vars_rc,
      vars_pg>>

others_sg ==
    <<vars_st, vars_vl, vars_cl, vars_rn, vars_rt, vars_mg, vars_rc,
      vars_pg>>

others_rc ==
    <<vars_st, vars_vl, vars_cl, vars_rn, vars_rt, vars_mg, vars_sg,
      vars_pg>>

others_pg ==
    <<vars_st, vars_vl, vars_cl, vars_rn, vars_rt, vars_mg, vars_sg, vars_rc>>

-----------------------------------------------------------------------------
(* Python string primitives                                                 *)

Min(S) == CHOOSE x \in S : \A y \in S : x <= y

Max(S) == CHOOSE x \in S : \A y \in S : x >= y

\* str.isspace for the characters of the model
IsSpace(c) == c \in {" ", "\n", "\t"}

\* s[:n]
Take(s, n) == SubSeq(s, 1, IF n < Len(s) THEN n ELSE Len(s))

\* s[n:]
Drop(s, n) == SubSeq(s, n + 1, Len(s))

\* str.rstrip()
rstrip(s) ==
    LET keep == {i \in 1..Len(s) : ~IsSpace(s[i])}
    IN  IF keep = {} THEN <<>> ELSE SubSeq(s, 1, Max(keep))

\* str.strip()
strip(s) ==
    LET keep == {i \in 1..Len(s) : ~IsSpace(s[i])}
    IN  IF keep = {} THEN <<>> ELSE SubSeq(s, Min(keep), Max(keep))

\* str.endswith
endswith(s, e) ==
    /\ Len(e) <= Len(s)
    /\ SubSeq(s, Len(s) - Len(e) + 1, Len(s)) = e

\* str.startswith
startswith(s, p) ==
    /\ Len(p) <= Len(s)
    /\ SubSeq(s, 1, Len(p)) = p

\* str.find: the 0-based position of the first occurrence of e, or -1
find(s, e) ==
    LET hits == {i \in 1..(Len(s) - Len(e) + 1) : SubSeq(s, i, i + Len(e) - 1) = e}
    IN  IF hits = {} THEN -1 ELSE Min(hits) - 1

\* the start (1-based, 0 when there is none) of the leftmost match of \n\s*\n
ParagraphEndStart(s) ==
    LET hits == {i \in 1..Len(s) :
                    /\ s[i] = "\n"
                    /\ \E j \in (i + 1)..Len(s) :
                          /\ s[j] = "\n"
                          /\ \A k \in (i + 1)..(j - 1) : IsSpace(s[k])}
    IN  IF hits = {} THEN 0 ELSE Min(hits)

-----------------------------------------------------------------------------
(* Boundary stitcher                                                        *)

\* the character class of sentence_endings in translator.py
SentenceEndChars == {".", "!", "?", "\"", "'", ")", "]", "}"}

\* the list sentence_endings of translator_doubao.py; "zh." "zh!" "zh?" stand
\* for the one-character full-width full stop, exclamation and question mark
DoubaoEndings ==
    {<<".">>, <<"!">>, <<"?">>, <<"zh.">>, <<"zh!">>, <<"zh?">>, <<"\n", "\n">>}

\* max_supplement of the fallback branch of translator.py
FallbackCap == 100

\* the fallback of the copy in test_sentence_completion_optimization.py
TestFallbackCap == 50

\* default max_supplement of ensure_sentence_completion_optimized
MaxSupplement == 50

\* the preview the doubao batch loop cuts from the next batch
PreviewCap == 1000

\* 1-based index of the first sentence-ending character, 0 when there is none
SentenceEndPos(s) ==
    LET hits == {i \in 1..Len(s) : s[i] \in SentenceEndChars}
    IN  IF hits = {} THEN 0 ELSE Min(hits)

\* the local variable completion of ensure_sentence_completion, for the
\* stripped next text; cap is the fallback's limit
StitchCompletion(next_text, cap) ==
    IF ParagraphEndStart(next_text) # 0
    THEN rstrip(Take(next_text, ParagraphEndStart(next_text) - 1))
    ELSE IF SentenceEndPos(next_text) # 0
         THEN Take(next_text, SentenceEndPos(next_text))
         ELSE Take(next_text, IF cap < Len(next_text) THEN cap ELSE Len(next_text))

StitchWithCap(text, next_batch_text, cap) ==
    IF strip(text) = <<>> THEN text
    ELSE IF strip(next_batch_text) = <<>> THEN rstrip(text)
    ELSE IF rstrip(text)[Len(rstrip(text))] \in SentenceEndChars THEN rstrip(text)
    ELSE rstrip(text) \o StitchCompletion(strip(next_batch_text), cap)

ensure_sentence_completion(text, next_batch_text) ==
    StitchWithCap(text, next_batch_text, FallbackCap)

test_ensure_sentence_completion_optimized(text, next_batch_text) ==
    StitchWithCap(text, next_batch_text, TestFallbackCap)

\* best_pos and best_ending of ensure_sentence_completion_optimized: the
\* ending found first in search_text (the list order breaks no tie: two
\* different endings of the list never start at the same position)
DoubaoBest(search_text) ==
    LET found == {e \in DoubaoEndings : find(search_text, e) # -1}
        pos   == Min({find(search_text, e) : e \in found})
    IN  IF found = {} THEN [pos |-> -1, ending |-> <<>>]
        ELSE [pos |-> pos,
              ending |-> CHOOSE e \in found : find(search_text, e) = pos]

ensure_sentence_completion_optimized(text, next_batch_preview, max_supplement) ==
    IF strip(text) = <<>> THEN text
    ELSE IF \E e \in DoubaoEndings : endswith(rstrip(text), e) THEN text
    ELSE IF next_batch_preview = <<>> THEN text \o <<".">>
    ELSE LET search_text == Take(next_batch_preview, max_supplement)
             best == DoubaoBest(search_text)
         IN  IF best.pos # -1
             THEN text \o Take(search_text, best.pos + Len(best.ending))
             ELSE text \o <<".">>

-----------------------------------------------------------------------------
(* Inputs of the stitcher                                                   *)

\* length of the long run of ordinary characters among the blocks
RunLen == 101

MaxTextBlocks == 2

MaxNextBlocks == 3

LongRun == [i \in 1..RunLen |-> "a"]

TextBlocks == {<<"a">>, <<".">>, <<")">>, <<" ">>}

NextBlocks == {<<"a">>, <<".">>, <<" ">>, <<"\n">>, LongRun}

RECURSIVE Concats(_, _)
Concats(blocks, n) ==
    IF n = 0 THEN {<<>>}
    ELSE LET shorter == Concats(blocks, n - 1)
         IN  shorter \cup {x \o b : x \in shorter, b \in blocks}

\* Scenario A of the specification
ScenarioA_text == <<"H", "e", "l", "l", "o", " ", "t", "h", "e", "r", "e">>

ScenarioA_next ==
    <<" ", "w", "o", "r", "l", "d", ".", " ", "M", "o", "r", "e", " ",
      "t", "e", "x", "t", " ", "h", "e", "r", "e", ".">>

ScenarioA_expected ==
    <<"H", "e", "l", "l", "o", " ", "t", "h", "e", "r", "e", " ",
      "w", "o", "r", "l", "d", ".">>

\* a next batch whose first sentence is longer than the preview
OverlongNext == [i \in 1..(PreviewCap + 1) |-> "a"] \o <<".">>

\* next batches with paragraph boundaries
ParagraphBlocks == {<<"a">>, <<".">>, <<" ">>, <<"\n", "\n">>}

MaxParagraphBlocks == 4

NoCall == [impl |-> "none"]

Init_st ==
    /\ \/ /\ st_text \in Concats(TextBlocks, MaxTextBlocks)
          /\ st_next \in Concats(NextBlocks, MaxNextBlocks)
       \/ /\ st_text = ScenarioA_text
          /\ st_next = ScenarioA_next
       \/ /\ st_text = <<"a">>
          /\ st_next = OverlongNext
       \/ /\ st_text = <<"a">>
          /\ st_next \in Concats(ParagraphBlocks, MaxParagraphBlocks)
    /\ st_out = NoCall

Idle_st ==
    /\ st_text = <<>>
    /\ st_next = <<>>
    /\ st_out = NoCall

\* translator.py, the stitching of the batch loop: the whole next batch text
\* is handed to the stitcher
StitchTranslator ==
    /\ st_out = NoCall
    /\ st_out' = [impl |-> "translator",
                  arg |-> st_next,
                  base |-> rstrip(st_text),
                  result |-> ensure_sentence_completion(st_text, st_next)]
    /\ UNCHANGED <<st_text, st_next>>
    /\ UNCHANGED others_st

\* translator_doubao.py, the stitching of the batch loop: the first
\* PreviewCap characters of the next batch text are handed to the stitcher
StitchDoubao ==
    /\ st_out = NoCall
    /\ LET next_batch_preview == Take(st_next, PreviewCap)
       IN  st_out' = [impl |-> "doubao",
                      arg |-> next_batch_preview,
                      base |-> st_text,
                      result |-> ensure_sentence_completion_optimized(
                                     st_text, next_batch_preview, MaxSupplement)]
    /\ UNCHANGED <<st_text, st_next>>
    /\ UNCHANGED others_st

\* test_sentence_completion_optimization.py: the copy under test, called
\* with a preview
StitchTest ==
    /\ st_out = NoCall
    /\ st_out' = [impl |-> "test",
                  arg |-> st_next,
                  base |-> rstrip(st_text),
                  result |-> test_ensure_sentence_completion_optimized(st_text, st_next)]
    /\ UNCHANGED <<st_text, st_next>>
    /\ UNCHANGED others_st

Next_st == StitchTranslator \/ StitchDoubao \/ StitchTest

\* the text a stitcher call appended to the current text
Appended(out) ==
    IF startswith(out.result, out.base) THEN Drop(out.result, Len(out.base)) ELSE <<>>

\* the cap each program configures for the text it borrows
StitchCap(impl) == IF impl = "doubao" THEN MaxSupplement ELSE PreviewCap

\* C5: in translator.py and translator_doubao.py the stitcher is handed only
\* a bounded preview (the first PreviewCap characters) of the next batch's
\* raw text, and the text it appends to the current batch is never longer
\* than the configured cap, whichever branch produced it.
C5_StitchBound ==
    (st_out # NoCall /\ st_out.impl \in {"translator", "doubao"}) =>
        /\ st_out.arg = Take(st_next, PreviewCap)
        /\ startswith(st_out.result, st_out.base)
        /\ Len(Appended(st_out)) <= StitchCap(st_out.impl)

\* C6: with a current text that does not end in terminal punctuation and a
\* preview without blank-line run that holds a terminal punctuation
\* character, ensure_sentence_completion (translator.py and the copy under
\* test) returns the current text followed by the preview verbatim up to and
\* including that character; Scenario A yields "Hello there world.".
C6_StitchToPunctuation ==
    (/\ st_out # NoCall
     /\ st_out.impl \in {"translator", "test"}
     /\ st_text # <<>>
     /\ ~IsSpace(st_text[Len(st_text)])
     /\ st_text[Len(st_text)] \notin SentenceEndChars
     /\ ParagraphEndStart(st_next) = 0
     /\ SentenceEndPos(st_next) # 0) =>
        /\ st_out.result = st_text \o Take(st_next, SentenceEndPos(st_next))
        /\ (st_text = ScenarioA_text /\ st_next = ScenarioA_next) =>
               st_out.result = ScenarioA_expected


\* C23: when the current batch text ends in a terminal punctuation character
\* (. ! ? closing quote ) ]) the stitcher of translator.py and the one of
\* translator_doubao.py return it with nothing appended, whatever the preview
\* of the next batch holds.
C23_CompleteTextUnchanged ==
    LET last == rstrip(st_text)
    IN  (/\ st_out # NoCall
         /\ st_out.impl \in {"translator", "doubao"}
         /\ last # <<>>
         /\ last[Len(last)] \in {".", "!", "?", "\"", "'", ")", "]"}) =>
            /\ st_out.result \in {st_text, last}
            /\ Appended(st_out) = <<>>


\* C24: when the current text is incomplete and the preview has a paragraph
\* boundary, the stitchers of translator.py and translator_doubao.py append
\* everything before the boundary, even when a terminal punctuation
\* character comes earlier in the preview; stated for previews that neither
\* begin nor end with white space.
C24_ParagraphBoundaryFirst ==
    LET last      == rstrip(st_text)
        next_text == strip(st_out.arg)
    IN  (/\ st_out # NoCall
         /\ st_out.impl \in {"translator", "doubao"}
         /\ last # <<>>
         /\ last[Len(last)] \notin SentenceEndChars
         /\ next_text # <<>>
         /\ next_text = st_out.arg
         /\ ParagraphEndStart(next_text) # 0) =>
            strip(Appended(st_out)) =
                strip(Take(next_text, ParagraphEndStart(next_text) - 1))

-----------------------------------------------------------------------------
(* Alignment validator of translator.py                                     *)
(* An oracle response is the sequence of its tagged units <cN>...</cN>;     *)
(* a unit is [idx |-> N, kind |-> what its content is]:                     *)
(*   "T" an ordinary translation      "M" the placeholder {{MISSING}}       *)
(*   "E" empty or blank               "H" starts with a boilerplate marker *)
(*   "D" no marker, but a page number, URL or copyright line                *)

Kinds == {"T", "M", "E", "H", "D"}

\* the units with their position in the response: enumerate(paragraphs, start=1)
Enumerate(llm_output) ==
    [p \in 1..Len(llm_output) |->
        [pos |-> p, idx |-> llm_output[p].idx, kind |-> llm_output[p].kind]]

is_header_footer_content(kind) == kind \in {"H", "D"}

\* the branch of strip_tags a unit takes
Classify(kind) ==
    IF kind = "M" THEN "missing"
    ELSE IF kind = "E" THEN "suppressed"
    ELSE IF is_header_footer_content(kind) THEN "suppressed"
    ELSE "rendered"

\* strip_tags: pure_text is the sequence of the paragraphs joined by a blank
\* line (each with the unit it came from), miss_list names positions
strip_tags(llm_output, keep_missing) ==
    LET paragraphs == Enumerate(llm_output)
        IsClean(e) == \/ Classify(e.kind) = "rendered"
                      \/ Classify(e.kind) = "missing" /\ keep_missing
        IsMiss(e)  == Classify(e.kind) = "missing"
        missed     == SelectSeq(paragraphs, IsMiss)
    IN  [pure_text |-> SelectSeq(paragraphs, IsClean),
         miss_list |-> [i \in 1..Len(missed) |-> missed[i].pos]]

\* sorted(S) for a set of integers
RECURSIVE sorted(_)
sorted(S) == IF S = {} THEN <<>> ELSE <<Min(S)>> \o sorted(S \ {Min(S)})

Range(f) == {f[i] : i \in DOMAIN f}

\* for tag_num in missing_list: if not in miss: miss.append
RECURSIVE AppendAbsent(_, _)
AppendAbsent(miss, missing_list) ==
    IF missing_list = <<>> THEN miss
    ELSE AppendAbsent(IF Head(missing_list) \in Range(miss) THEN miss
                      ELSE Append(miss, Head(missing_list)),
                      Tail(missing_list))

Abs(x) == IF x < 0 THEN -x ELSE x

\* abs(original - translated) > original * 0.2
DriftExceeds(original_segments, translated_segments) ==
    5 * Abs(original_segments - translated_segments) > original_segments

\* a validator that flags a batch by drift alone
WarningOf_DriftOnly(missing_tags, original_segments, translated_segments) ==
    IF DriftExceeds(original_segments, translated_segments) THEN "drift" ELSE "none"

\* the warning the validation block records for a batch
WarningOf(missing_tags, original_segments, translated_segments) ==
    IF missing_tags # {} THEN "dropped"
    ELSE IF DriftExceeds(original_segments, translated_segments) THEN "drift"
    ELSE "none"

\* a validation that accepts an empty cleaned text
ValidateBatch_AcceptEmpty(n, llm_out) ==
    LET stripped      == strip_tags(llm_out, TRUE)
        missing_tags  == (1..n) \ {llm_out[p].idx : p \in 1..Len(llm_out)}
    IN  [status  |-> "validated",
         cn_body |-> stripped.pure_text,
         miss    |-> AppendAbsent(stripped.miss_list, sorted(missing_tags)),
         dropped |-> missing_tags,
         warning |-> WarningOf(missing_tags, n, Len(stripped.pure_text))]

\* translator.py, the block that cleans and parses: what the batch loop makes of llm_out for a
\* batch of n input segments
ValidateBatch(n, llm_out) ==
    LET stripped      == strip_tags(llm_out, TRUE)
        cn_body       == stripped.pure_text
        input_tags    == 1..n
        output_tags   == {llm_out[p].idx : p \in 1..Len(llm_out)}
        missing_tags  == input_tags \ output_tags
    IN  IF cn_body = <<>>
        THEN [status |-> "parse_failed", cn_body |-> <<>>, miss |-> <<>>,
              dropped |-> {}, warning |-> "none"]
        ELSE [status  |-> "validated",
              cn_body |-> cn_body,
              miss    |-> AppendAbsent(stripped.miss_list, sorted(missing_tags)),
              dropped |-> missing_tags,
              warning |-> WarningOf(missing_tags, n, Len(cn_body))]

MaxSegs == 3

MaxUnits == 3

Units == [idx : 1..MaxSegs, kind : Kinds]

RECURSIVE SeqsUpTo(_, _)
SeqsUpTo(S, n) ==
    IF n = 0 THEN {<<>>}
    ELSE LET shorter == SeqsUpTo(S, n - 1)
         IN  shorter \cup {Append(x, u) : x \in shorter, u \in S}

\* Scenario B of the specification: tags {1,2,4} for the 4 inputs {1,2,3,4}
ScenarioB_resp ==
    <<[idx |-> 1, kind |-> "T"], [idx |-> 2, kind |-> "T"], [idx |-> 4, kind |-> "T"]>>

\* a response that skips index 3 and marks index 4 missing
SkipAndMissing_resp ==
    <<[idx |-> 1, kind |-> "T"], [idx |-> 2, kind |-> "T"], [idx |-> 4, kind |-> "M"]>>

\* the last of 5 input indices omitted: a difference of exactly 20%
LowDrift_resp ==
    <<[idx |-> 1, kind |-> "T"], [idx |-> 2, kind |-> "T"],
      [idx |-> 3, kind |-> "T"], [idx |-> 4, kind |-> "T"]>>

Init_vl ==
    /\ \/ /\ vl_n \in 1..MaxSegs
          /\ vl_resp \in SeqsUpTo(Units, MaxUnits) \ {<<>>}
       \/ /\ vl_n = 4
          /\ vl_resp \in {ScenarioB_resp, SkipAndMissing_resp}
       \/ /\ vl_n = 5
          /\ vl_resp = LowDrift_resp
    /\ vl_out = NoCall

Idle_vl ==
    /\ vl_n = 0
    /\ vl_resp = <<>>
    /\ vl_out = NoCall

Validate ==
    /\ vl_out = NoCall
    /\ vl_out' = [impl |-> "translator"] @@ ValidateBatch(vl_n, vl_resp)
    /\ UNCHANGED <<vl_n, vl_resp>>
    /\ UNCHANGED others_vl

Next_vl == Validate

CountClass(resp, class) ==
    Cardinality({p \in 1..Len(resp) : Classify(resp[p].kind) = class})

\* C2: for every batch translator.py validates and persists, whatever the
\* response, the segments classified rendered, missing (placeholders plus
\* dropped indices: the batch's missing list) and suppressed add up to the
\* number of input segments, and every dropped index is in the missing list.
C2_SegmentConservation ==
    (vl_out # NoCall /\ vl_out.status = "validated") =>
        /\ CountClass(vl_resp, "rendered") + Len(vl_out.miss)
              + CountClass(vl_resp, "suppressed") = vl_n
        /\ vl_out.dropped \subseteq Range(vl_out.miss)

\* the response tags some of the indices 1..n, each once and in order, with
\* ordinary translations, and omits at least one
OmissionResponse(n, resp) ==
    /\ resp # <<>>
    /\ \A p \in 1..Len(resp) : resp[p].kind = "T" /\ resp[p].idx \in 1..n
    /\ \A p, q \in 1..Len(resp) : p < q => resp[p].idx < resp[q].idx
    /\ Len(resp) < n

Omitted(n, resp) == (1..n) \ {resp[p].idx : p \in 1..Len(resp)}

\* the part of C7 that the code satisfies: the omitted indices are the
\* dropped ones, they make up the missing list, and the cleaned text holds
\* the returned segments in their original order
OmissionReported ==
    /\ vl_out.status = "validated"
    /\ vl_out.dropped = Omitted(vl_n, vl_resp)
    /\ vl_out.miss = sorted(Omitted(vl_n, vl_resp))
    /\ [p \in 1..Len(vl_out.cn_body) |-> vl_out.cn_body[p].idx]
          = [p \in 1..Len(vl_resp) |-> vl_resp[p].idx]

\* drift within the threshold, by the count of the cleaned text (the code's
\* measure) and by the count of reconciled segments (the specification's)
DriftWithinThreshold ==
    /\ ~DriftExceeds(vl_n, Len(vl_out.cn_body))
    /\ ~DriftExceeds(vl_n, CountClass(vl_resp, "rendered")
                             + CountClass(vl_resp, "suppressed") + Len(vl_out.miss))

\* C7 as claimed: after a response that omits indices, the omitted indices
\* are reported and added to the missing list, the order is kept, and no
\* warning is recorded as long as drift does not exceed the threshold.
C7_OmissionNotFlagged ==
    (vl_out # NoCall /\ OmissionResponse(vl_n, vl_resp)) =>
        /\ OmissionReported
        /\ DriftWithinThreshold => vl_out.warning = "none"

\* C7 as amended: after a response that omits indices, the omitted indices
\* are reported and added to the missing list, the order is kept, and the
\* batch is flagged with the dropped-segment warning whatever the drift.
C7_OmissionFlagged ==
    (vl_out # NoCall /\ OmissionResponse(vl_n, vl_resp)) =>
        /\ OmissionReported
        /\ vl_out.warning = "dropped"

C7_Witness ==
    /\ vl_out # NoCall
    /\ vl_n = 5
    /\ OmissionResponse(vl_n, vl_resp)
    /\ DriftWithinThreshold
    /\ vl_out.miss = <<5>>


\* C18: the cleaned text strip_tags returns to the pipeline holds only the
\* segments classified rendered; a segment classified missing or suppressed
\* contributes no text to the prose.
C18_OnlyRenderedInProse ==
    (vl_out # NoCall /\ vl_out.status = "validated") =>
        \A i \in 1..Len(vl_out.cn_body) :
            Classify(vl_out.cn_body[i].kind) = "rendered"


\* C26: translator.py flags a batch for drift only when
\* |input_count - (rendered + suppressed + missing)| / input_count exceeds
\* 0.2, the three counts being the numbers of response segments of each
\* class; so a response that tags every input index, some of them with the
\* boilerplate marker, has drift 0 and is not flagged.
C26_DriftCountsAllClasses ==
    (vl_out # NoCall /\ vl_out.status = "validated") =>
        LET classes == [c \in {"rendered", "suppressed", "missing"} |->
                           Cardinality({p \in 1..Len(vl_resp) :
                                            Classify(vl_resp[p].kind) = c})]
            counted == classes["rendered"] + classes["suppressed"] + classes["missing"]
        IN  vl_out.warning = "drift" => 5 * Abs(vl_n - counted) > vl_n


\* C27: strip_tags puts every extracted segment in exactly one class: the
\* missing placeholder is missing; empty content and content that starts with
\* an explicit boilerplate marker are suppressed; any other content is
\* rendered and appears in the cleaned text.
C27_ClassificationRule ==
    (vl_out # NoCall /\ vl_out.status = "validated") =>
        \A p \in 1..Len(vl_resp) :
            LET kind   == vl_resp[p].kind
                inBody == \E i \in 1..Len(vl_out.cn_body) : vl_out.cn_body[i].pos = p
            IN  /\ kind = "M" => p \in Range(vl_out.miss)
                /\ kind \in {"E", "H"} => ~inBody
                /\ kind \notin {"M", "E", "H"} => inBody


\* C28: the validator keys each extracted segment by the index embedded in
\* its tag: every entry of the missing list strip_tags returns (the leading
\* entries of the batch's missing list) names the embedded index of the
\* segment that carried the missing placeholder, also when the response
\* omits, repeats or reorders indices.
C28_MissingNamedByEmbeddedIndex ==
    (vl_out # NoCall /\ vl_out.status = "validated") =>
        LET IsPlaceholder(u) == u.kind = "M"
            placeholders     == SelectSeq(vl_resp, IsPlaceholder)
        IN  \A i \in 1..Len(placeholders) :
                vl_out.miss[i] = placeholders[i].idx

-----------------------------------------------------------------------------
(* call_llm of translator.py                                                *)

\* default of the parameter max_retries
DefaultMaxRetries == 3

\* the largest max_retries tried
MaxRetriesTried == 6

\* what one request can come to: a well-formed non-empty response, or one of
\* the failures call_llm catches (Timeout, ConnectionError, HTTPError from
\* raise_for_status, a body that is no JSON, no "choices", empty content,
\* any other exception)
Failures ==
    {"timeout", "connection", "http", "bad_json", "no_choices", "empty", "other"}

Outcomes == {"ok"} \cup Failures

\* a loop that tries once more than max_retries
MoreAttempts_OffByOne(attempt, max_retries) == attempt <= max_retries

\* for attempt in range(max_retries)
MoreAttempts(attempt, max_retries) == attempt < max_retries

\* a backoff without the cap
wait_time_Uncapped(attempt) == 5 * (2 ^ attempt)

\* min(5 * (2 ** attempt), 30)
wait_time(attempt) == IF 5 * (2 ^ attempt) < 30 THEN 5 * (2 ^ attempt) ELSE 30

Init_cl ==
    /\ cl_max \in 0..MaxRetriesTried
    /\ cl_attempt = 0
    /\ cl_pc = "loop"
    /\ cl_requests = 0
    /\ cl_log = <<>>
    /\ cl_sleeps = <<>>

Idle_cl ==
    /\ cl_max = 0
    /\ cl_attempt = 0
    /\ cl_pc = "idle"
    /\ cl_requests = 0
    /\ cl_log = <<>>
    /\ cl_sleeps = <<>>

\* one iteration of the retry loop: the request, and on failure the backoff
CallAttempt(outcome) ==
    /\ cl_pc = "loop"
    /\ MoreAttempts(cl_attempt, cl_max)
    /\ cl_requests' = cl_requests + 1
    /\ cl_log' = Append(cl_log, outcome)
    /\ IF outcome = "ok"
       THEN /\ cl_pc' = "returned"
            /\ UNCHANGED <<cl_attempt, cl_sleeps>>
       ELSE /\ cl_pc' = "loop"
            /\ cl_attempt' = cl_attempt + 1
            /\ cl_sleeps' = IF cl_attempt < cl_max - 1
                            THEN Append(cl_sleeps, wait_time(cl_attempt))
                            ELSE cl_sleeps
    /\ UNCHANGED cl_max
    /\ UNCHANGED others_cl

\* the loop is exhausted: raise RuntimeError
CallRaise ==
    /\ cl_pc = "loop"
    /\ ~MoreAttempts(cl_attempt, cl_max)
    /\ cl_pc' = "raised"
    /\ UNCHANGED <<cl_max, cl_attempt, cl_requests, cl_log, cl_sleeps>>
    /\ UNCHANGED others_cl

Next_cl == (\E outcome \in Outcomes : CallAttempt(outcome)) \/ CallRaise

\* C8: call_llm makes at most max_retries requests; it returns at the first
\* request that yields a well-formed non-empty response, having sent none
\* after it; every other outcome counts as a failed attempt; and it raises
\* only after exactly max_retries failed attempts.
C8_BoundedRetry ==
    /\ cl_requests = Len(cl_log)
    /\ cl_requests <= cl_max
    /\ \A i \in 1..(Len(cl_log) - 1) : cl_log[i] \in Failures
    /\ cl_pc = "returned" <=> (cl_log # <<>> /\ cl_log[Len(cl_log)] = "ok")
    /\ cl_pc = "raised" =>
          /\ cl_requests = cl_max
          /\ \A i \in 1..Len(cl_log) : cl_log[i] \in Failures

C8_Witness ==
    /\ cl_pc = "raised"
    /\ cl_max = DefaultMaxRetries
    /\ cl_requests = DefaultMaxRetries
    /\ {cl_log[i] : i \in 1..Len(cl_log)} = {"timeout", "http", "empty"}


\* the requests of the log that failed
FailedAttempts == Cardinality({i \in 1..Len(cl_log) : cl_log[i] # "ok"})

\* C25: in call_llm of translator.py the delay before retry number k+1
\* (k = 0, 1, ...) is min(5 * 2^k, 30) seconds: the delays never decrease,
\* never exceed 30 seconds whatever max_retries is, one delay is taken after
\* each failed attempt but the last, and none after the final failed attempt.
C25_BackoffCapped ==
    /\ \A i \in 1..Len(cl_sleeps) :
           /\ cl_sleeps[i] = Min({5 * (2 ^ (i - 1)), 30})
           /\ cl_sleeps[i] <= 30
           /\ i > 1 => cl_sleeps[i - 1] <= cl_sleeps[i]
    /\ Len(cl_sleeps) = Min({FailedAttempts, Max({cl_max - 1, 0})})
    /\ cl_pc = "raised" => Len(cl_sleeps) = Max({cl_max - 1, 0})

C25_Witness ==
    /\ cl_pc = "raised"
    /\ cl_max = 6
    /\ cl_sleeps = <<5, 10, 20, 30, 30>>

-----------------------------------------------------------------------------
(* The main batch loop of translator.py and translator_doubao.py            *)

\* total_batches
NBatches == 2

\* the number of <cN> tags of tagged_eng for a batch that has text
RunSegs == 2

Batches == 1..NBatches

\* a file of the output directory: what exists() and read_text() give
File(kind, batch, body) == [kind |-> kind, batch |-> batch, body |-> body]

NoFile == File("nofile", 0, <<>>)

\* what a batch artifact can be when the run starts: absent, empty or
\* whitespace only, failing to read, or the content a previous run wrote
ArtifactKinds == {"nofile", "blank", "unreadable", "old"}

\* a cache check that trusts any file that exists
CacheHit_ExistsOnly(file) == file.kind # "nofile"

\* batch_md_file.exists() and read_text() succeeds and cached_content.strip()
CacheHit(file) == file.kind \notin {"nofile", "blank", "unreadable"}

\* a write that never reaches the disk
WriteText_Lost(disk, k, content) == disk

\* batch_path.write_text(content)
WriteText(disk, k, content) == [disk EXCEPT ![k] = content]

\* write_text either writes the file or raises
WriteOutcomes == {"ok", "raises"}

\* entries of MISSING_DICT[batch_id]: the name of a segment, or a marker
Seg(i) == [tag |-> "segment", name |-> i]

Marker(m) == [tag |-> m, name |-> 0]

\* the oracle responses tried for a batch of n segments
FullResp(n) == [i \in 1..n |-> [idx |-> i, kind |-> "T"]]

DroppedResp(n) == SubSeq(FullResp(n), 1, n - 1)

PlaceholderResp(n) ==
    [i \in 1..n |-> [idx |-> i, kind |-> IF i = n THEN "M" ELSE "T"]]

PartSuppressedResp(n) ==
    [i \in 1..n |-> [idx |-> i, kind |-> IF i = n THEN "H" ELSE "T"]]

SuppressedResp(n) == [i \in 1..n |-> [idx |-> i, kind |-> "H"]]

RunResponses ==
    {FullResp(RunSegs), DroppedResp(RunSegs), PlaceholderResp(RunSegs),
     PartSuppressedResp(RunSegs), SuppressedResp(RunSegs)}

\* a filter that knows only the marker of the outer except
IsFailureEntry_ErrorOnly(m) == m.tag = "process_error"

\* the filter of failed_batches: the entry holds one of the two failure words
IsFailureEntry(m) ==
    m.tag \in {"translate_failed", "parse_failed", "process_error", "process_failed"}

\* any(... for m in miss_list) with the filter of failed_batches
HasFailureEntry(miss_list) ==
    \E i \in 1..Len(miss_list) : IsFailureEntry(miss_list[i])

IsProcessError(m) == m.tag = "process_error"

\* any(... for m in miss_list) with the filter of processed_batches_success
HasProcessError(miss_list) ==
    \E i \in 1..Len(miss_list) : IsProcessError(miss_list[i])

\* the filter of missing_segments: not the translation-failure marker, no error word
CountsAsMissing(m) == m.tag \notin {"translate_failed", "process_error"}

RECURSIVE SumOver(_, _)
SumOver(S, f) ==
    IF S = {} THEN 0
    ELSE LET x == CHOOSE y \in S : TRUE
         IN  Len(SelectSeq(f[x], CountsAsMissing)) + SumOver(S \ {x}, f)

\* the statistics and sections of translation_report.txt
Report(MISSING_DICT, WARNING_DICT) ==
    LET failed == {k \in DOMAIN MISSING_DICT :
                       HasFailureEntry(MISSING_DICT[k])}
    IN  [total_batches |-> NBatches,
         processed_batches_success |->
             Cardinality({k \in DOMAIN MISSING_DICT :
                              ~HasProcessError(MISSING_DICT[k])}),
         failed_batches |-> failed,
         missing_segments |-> SumOver(DOMAIN MISSING_DICT, MISSING_DICT),
         batches_with_missing |->
             {k \in DOMAIN MISSING_DICT :
                  MISSING_DICT[k] # <<>> /\ k \notin failed},
         warnings |-> DOMAIN WARNING_DICT,
         successful_batches |->
             {k \in DOMAIN MISSING_DICT :
                  k \notin failed /\ MISSING_DICT[k] = <<>>}]

NoReport == [total_batches |-> 0]

\* PAGES_PER_BATCH
PagesPerBatch == 2

\* total_pages: the last batch is one page short
TotalPages == NBatches * PagesPerBatch - 1

\* a page range that ignores the end of the document
PageRange_Unclipped(batch_num) ==
    <<(batch_num - 1) * PagesPerBatch + 1, batch_num * PagesPerBatch>>

\* p_start, p_end of a batch
PageRange(batch_num) ==
    <<(batch_num - 1) * PagesPerBatch + 1,
      Min({batch_num * PagesPerBatch, TotalPages})>>

\* retry_config.json was not written
NoRetry == <<[batch_num |-> 0, pages |-> <<0, 0>>]>>

\* retry_batches: one entry per failed batch, in the order of failed_batches
\* (the order of MISSING_DICT, which is the order of the batch numbers)
RetryBatches(failed_batches) ==
    LET ids == sorted(failed_batches)
    IN  [i \in 1..Len(ids) |-> [batch_num |-> ids[i], pages |-> PageRange(ids[i])]]

Event(type, batch, what) == [type |-> type, batch |-> batch, what |-> what]

Init_rn ==
    /\ rn_prog \in {"translator", "doubao"}
    /\ rn_raw \in [Batches -> {"blank", "text"}]
    /\ rn_disk0 \in [Batches -> ArtifactKinds]
    /\ rn_disk = [k \in Batches |-> File(rn_disk0[k], k, <<>>)]
    /\ rn_style \in (IF rn_prog = "translator" THEN {"", "file"} ELSE {""})
    /\ rn_k = 1
    /\ rn_pc = "loop"
    /\ rn_MISSING = <<>>
    /\ rn_WARNING = <<>>
    /\ rn_parts = <<>>
    /\ rn_events = <<>>
    /\ rn_inflight = {}
    /\ rn_outcome = [k \in Batches |-> "unprocessed"]
    /\ rn_doc = NoFile
    /\ rn_report = NoReport
    /\ rn_retry = NoRetry

Idle_rn ==
    /\ rn_prog = "none"
    /\ rn_raw = <<>>
    /\ rn_disk0 = <<>>
    /\ rn_disk = <<>>
    /\ rn_style = ""
    /\ rn_k = 0
    /\ rn_pc = "idle"
    /\ rn_MISSING = <<>>
    /\ rn_WARNING = <<>>
    /\ rn_parts = <<>>
    /\ rn_events = <<>>
    /\ rn_inflight = {}
    /\ rn_outcome = <<>>
    /\ rn_doc = NoFile
    /\ rn_report = NoReport
    /\ rn_retry = NoRetry

\* a loop that looks at the same batch again
AfterBatch_Same(batch_num) == batch_num

\* for batch_num in range(1, total_batches + 1): the batch after batch_num
AfterBatch(batch_num) == batch_num + 1

\* the loop is at batch rn_k and has not yet looked at it
AtBatch == rn_pc = "loop" /\ rn_k \in Batches

\* cache check: the artifact is trusted, the loop continues with the next batch
CacheHitBatch ==
    /\ AtBatch
    /\ CacheHit(rn_disk[rn_k])
    /\ rn_parts' = Append(rn_parts, rn_disk[rn_k])
    /\ rn_outcome' = [rn_outcome EXCEPT ![rn_k] = "cache_hit"]
    /\ rn_events' = Append(rn_events, Event("start", rn_k, "-"))
    /\ rn_k' = AfterBatch(rn_k)
    /\ UNCHANGED <<rn_prog, rn_raw, rn_disk0, rn_disk, rn_style, rn_pc,
                   rn_MISSING, rn_WARNING, rn_inflight, rn_doc, rn_report,
                   rn_retry>>
    /\ UNCHANGED others_rn

\* if not raw_eng.strip(): the whole batch is recorded as missing
EmptyBatch ==
    /\ AtBatch
    /\ ~CacheHit(rn_disk[rn_k])
    /\ rn_raw[rn_k] = "blank"
    /\ rn_MISSING' = (rn_k :> <<Marker("whole_batch_missing")>>) @@ rn_MISSING
    /\ rn_outcome' = [rn_outcome EXCEPT ![rn_k] = "empty"]
    /\ rn_events' = Append(rn_events, Event("start", rn_k, "-"))
    /\ rn_k' = AfterBatch(rn_k)
    /\ UNCHANGED <<rn_prog, rn_raw, rn_disk0, rn_disk, rn_style, rn_pc,
                   rn_WARNING, rn_parts, rn_inflight, rn_doc, rn_report,
                   rn_retry>>
    /\ UNCHANGED others_rn

\* a style test that asks for a style whatever the cache holds
StyleMissing_Always(style_cache) == TRUE

\* if not style_cache
StyleMissing(style_cache) == style_cache = ""

\* refresh_style: a cached style is kept; else the style of the oracle, or
\* the default one when the call raised or returned nothing
refresh_style(style_cache, ok) ==
    IF ~StyleMissing(style_cache) THEN style_cache
    ELSE IF ok THEN "oracle" ELSE "default"

\* translator.py with no style yet: refresh_style asks the oracle
BeginStyleCall ==
    /\ AtBatch
    /\ ~CacheHit(rn_disk[rn_k])
    /\ rn_raw[rn_k] = "text"
    /\ rn_prog = "translator"
    /\ StyleMissing(rn_style)
    /\ rn_pc' = "style_call"
    /\ rn_inflight' = rn_inflight \cup {rn_k}
    /\ rn_events' = rn_events \o
           <<Event("start", rn_k, "-"), Event("call", rn_k, "style")>>
    /\ UNCHANGED <<rn_prog, rn_raw, rn_disk0, rn_disk, rn_style, rn_k,
                   rn_MISSING, rn_WARNING, rn_parts, rn_outcome, rn_doc,
                   rn_report,
                   rn_retry>>
    /\ UNCHANGED others_rn

\* refresh_style returns: the style of the oracle, or the default one when
\* the call raised or returned nothing
StyleReturn(ok) ==
    /\ rn_pc = "style_call"
    /\ rn_style' = refresh_style(rn_style, ok)
    /\ rn_pc' = "translate_call"
    /\ rn_events' = rn_events \o
           <<Event("return", rn_k, "style"), Event("call", rn_k, "translate")>>
    /\ UNCHANGED <<rn_prog, rn_raw, rn_disk0, rn_disk, rn_k, rn_MISSING,
                   rn_WARNING, rn_parts, rn_inflight, rn_outcome, rn_doc,
                   rn_report,
                   rn_retry>>
    /\ UNCHANGED others_rn

\* the style is known (translator.py) or computed locally (translator_doubao.py,
\* which leaves it empty for a sample under 100 characters): the batch is
\* sent to the oracle
BeginTranslateCall(long_sample) ==
    /\ AtBatch
    /\ ~CacheHit(rn_disk[rn_k])
    /\ rn_raw[rn_k] = "text"
    /\ \/ /\ rn_prog = "translator"
          /\ ~StyleMissing(rn_style)
          /\ long_sample
          /\ UNCHANGED rn_style
       \/ /\ rn_prog = "doubao"
          /\ rn_style' = IF rn_style # "" THEN rn_style
                         ELSE IF long_sample THEN "local" ELSE ""
    /\ rn_pc' = "translate_call"
    /\ rn_inflight' = rn_inflight \cup {rn_k}
    /\ rn_events' = rn_events \o
           <<Event("start", rn_k, "-"), Event("call", rn_k, "translate")>>
    /\ UNCHANGED <<rn_prog, rn_raw, rn_disk0, rn_disk, rn_k, rn_MISSING,
                   rn_WARNING, rn_parts, rn_outcome, rn_doc, rn_report,
                   rn_retry>>
    /\ UNCHANGED others_rn

\* call_llm raised: every attempt failed
TranslateRaise(write) ==
    /\ rn_pc = "translate_call"
    /\ rn_pc' = "loop"
    /\ rn_k' = AfterBatch(rn_k)
    /\ rn_inflight' = rn_inflight \ {rn_k}
    /\ rn_outcome' = [rn_outcome EXCEPT ![rn_k] = "failed"]
    /\ IF rn_prog = "translator"
       THEN \* the error placeholder takes the place of the translation
            LET error_content == File("error", rn_k, <<>>)
            IN  IF write = "ok"
                THEN /\ rn_MISSING' =
                            (rn_k :> <<Marker("translate_failed")>>) @@ rn_MISSING
                     /\ rn_disk' = WriteText(rn_disk, rn_k, error_content)
                     /\ rn_parts' = Append(rn_parts, error_content)
                     /\ rn_events' = rn_events \o
                            <<Event("raise", rn_k, "translate"),
                              Event("write", rn_k, "error")>>
                ELSE \* write_text raises into the outer except
                     /\ rn_MISSING' =
                            (rn_k :> <<Marker("process_error")>>) @@ rn_MISSING
                     /\ rn_events' =
                            Append(rn_events, Event("raise", rn_k, "translate"))
                     /\ UNCHANGED <<rn_disk, rn_parts>>
       ELSE \* translator_doubao.py: the outer except
            /\ write = "ok"
            /\ rn_MISSING' = (rn_k :> <<Marker("process_failed")>>) @@ rn_MISSING
            /\ rn_events' = Append(rn_events, Event("raise", rn_k, "translate"))
            /\ UNCHANGED <<rn_disk, rn_parts>>
    /\ UNCHANGED <<rn_prog, rn_raw, rn_disk0, rn_style, rn_WARNING, rn_doc,
                   rn_report,
                   rn_retry>>
    /\ UNCHANGED others_rn

\* translator.py: validation of llm_out, then the batch file
TranslatorReturn(llm_out, write) ==
    /\ rn_pc = "translate_call"
    /\ rn_prog = "translator"
    /\ rn_pc' = "loop"
    /\ rn_k' = AfterBatch(rn_k)
    /\ rn_inflight' = rn_inflight \ {rn_k}
    /\ LET v == ValidateBatch(RunSegs, llm_out)
           parsed == v.status = "validated"
           miss == IF parsed THEN [i \in 1..Len(v.miss) |-> Seg(v.miss[i])]
                   ELSE <<Marker("parse_failed")>>
           batch_content == IF parsed THEN File("body", rn_k, v.cn_body)
                            ELSE File("parse_error", rn_k, <<>>)
       IN  /\ rn_WARNING' = IF parsed /\ v.warning # "none"
                            THEN (rn_k :> v.warning) @@ rn_WARNING
                            ELSE rn_WARNING
           /\ IF write = "ok"
              THEN /\ rn_MISSING' = (rn_k :> miss) @@ rn_MISSING
                   /\ rn_disk' = WriteText(rn_disk, rn_k, batch_content)
                   /\ rn_parts' = Append(rn_parts, batch_content)
                   /\ rn_events' = rn_events \o
                          <<Event("return", rn_k, "translate"),
                            Event("write", rn_k, batch_content.kind)>>
                   /\ rn_outcome' = [rn_outcome EXCEPT ![rn_k] =
                          IF ~parsed THEN "failed"
                          ELSE IF miss # <<>> \/ v.warning # "none"
                               THEN "completed_with_warnings"
                          ELSE "completed"]
              ELSE \* write_text raises: logged, re-raised into the outer except
                   /\ rn_MISSING' =
                          (rn_k :> <<Marker("process_error")>>) @@ rn_MISSING
                   /\ rn_events' =
                          Append(rn_events, Event("return", rn_k, "translate"))
                   /\ rn_outcome' = [rn_outcome EXCEPT ![rn_k] = "failed"]
                   /\ UNCHANGED <<rn_disk, rn_parts>>
    /\ UNCHANGED <<rn_prog, rn_raw, rn_disk0, rn_style, rn_doc, rn_report,
                   rn_retry>>
    /\ UNCHANGED others_rn

\* translator_doubao.py: the tag counts are compared, the response is saved
\* as it came
DoubaoReturn(translated_content, write) ==
    /\ rn_pc = "translate_call"
    /\ rn_prog = "doubao"
    /\ rn_pc' = "loop"
    /\ rn_k' = AfterBatch(rn_k)
    /\ rn_inflight' = rn_inflight \ {rn_k}
    /\ LET input_tags == RunSegs
           output_tags == Len(translated_content)
           content == File("tagged", rn_k, Enumerate(translated_content))
       IN  /\ rn_WARNING' = IF input_tags # output_tags
                            THEN (rn_k :> "mismatch") @@ rn_WARNING
                            ELSE rn_WARNING
           /\ IF write = "ok"
              THEN /\ rn_disk' = WriteText(rn_disk, rn_k, content)
                   /\ rn_parts' = Append(rn_parts, content)
                   /\ rn_events' = rn_events \o
                          <<Event("return", rn_k, "translate"),
                            Event("write", rn_k, "tagged")>>
                   /\ rn_outcome' = [rn_outcome EXCEPT ![rn_k] =
                          IF input_tags # output_tags
                          THEN "completed_with_warnings" ELSE "completed"]
              ELSE \* the save failed: logged, continue
                   /\ rn_events' =
                          Append(rn_events, Event("return", rn_k, "translate"))
                   /\ rn_outcome' = [rn_outcome EXCEPT ![rn_k] = "failed"]
                   /\ UNCHANGED <<rn_disk, rn_parts>>
    /\ UNCHANGED <<rn_prog, rn_raw, rn_disk0, rn_style, rn_MISSING, rn_doc,
                   rn_report,
                   rn_retry>>
    /\ UNCHANGED others_rn

\* after the loop: the report (translator.py) and the assembled document
Finish ==
    /\ rn_pc = "loop"
    /\ rn_k = NBatches + 1
    /\ rn_pc' = "done"
    /\ rn_report' = IF rn_prog = "translator"
                    THEN Report(rn_MISSING, rn_WARNING)
                    ELSE NoReport
    /\ rn_doc' = IF rn_parts # <<>> THEN File("document", 0, rn_parts)
                 ELSE rn_doc
    /\ rn_retry' =
           IF rn_prog = "translator" /\ Report(rn_MISSING, rn_WARNING).failed_batches # {}
           THEN RetryBatches(Report(rn_MISSING, rn_WARNING).failed_batches)
           ELSE rn_retry
    /\ UNCHANGED <<rn_prog, rn_raw, rn_disk0, rn_disk, rn_style, rn_k,
                   rn_MISSING, rn_WARNING, rn_parts, rn_events, rn_inflight,
                   rn_outcome>>
    /\ UNCHANGED others_rn

Next_rn ==
    \/ CacheHitBatch
    \/ EmptyBatch
    \/ BeginStyleCall
    \/ \E ok \in BOOLEAN : StyleReturn(ok)
    \/ \E long_sample \in BOOLEAN : BeginTranslateCall(long_sample)
    \/ \E write \in WriteOutcomes : TranslateRaise(write)
    \/ \E llm_out \in RunResponses, write \in WriteOutcomes :
           TranslatorReturn(llm_out, write)
    \/ \E translated_content \in RunResponses, write \in WriteOutcomes :
           DoubaoReturn(translated_content, write)
    \/ Finish

\* the loop has left batch k behind
Processed(k) == rn_outcome[k] # "unprocessed"

\* the oracle calls made for batch k, as positions of the event log
CallsFor(k) ==
    {e \in 1..Len(rn_events) :
         rn_events[e].type = "call" /\ rn_events[e].batch = k}

TranslateCallsFor(k) == {e \in CallsFor(k) : rn_events[e].what = "translate"}

\* when the run started the artifact of k existed with non-whitespace content
HadArtifact(k) == rn_disk0[k] = "old"

\* the artifact of k is as it was and its content is part of the output
ArtifactReused(k) ==
    /\ rn_disk[k] = File("old", k, <<>>)
    /\ \E i \in 1..Len(rn_parts) : rn_parts[i] = File("old", k, <<>>)
    /\ rn_pc = "done" =>
          \E i \in 1..Len(rn_doc.body) : rn_doc.body[i] = File("old", k, <<>>)

\* C1 as stated: the oracle dispatch of batch K is skipped if and only if an
\* artifact of K exists with non-whitespace content; on such a hit no oracle
\* call is made for K, the artifact is unmodified and its content is added
\* unchanged to the output; any other artifact sends K through the full
\* translation path.
C1_SkipIffCacheHit ==
    \A k \in DOMAIN rn_outcome :
        Processed(k) =>
            /\ CallsFor(k) = {} <=> HadArtifact(k)
            /\ HadArtifact(k) => ArtifactReused(k)
            /\ ~HadArtifact(k) => TranslateCallsFor(k) # {}

\* C1 amended: a cache hit skips the oracle for K, leaves the artifact
\* unmodified and adds its content unchanged to the output; without a hit K
\* goes through the translation path, which dispatches the oracle unless the
\* raw text of K is blank. So the dispatch is skipped if and only if there
\* is a cache hit or the raw text is blank.
C1_SkipIffCacheHitOrBlank ==
    \A k \in DOMAIN rn_outcome :
        Processed(k) =>
            /\ CallsFor(k) = {} <=> (HadArtifact(k) \/ rn_raw[k] = "blank")
            /\ HadArtifact(k) => ArtifactReused(k)
            /\ (~HadArtifact(k) /\ rn_raw[k] = "text") => TranslateCallsFor(k) # {}
            /\ (~HadArtifact(k) /\ rn_raw[k] = "blank") => rn_outcome[k] = "empty"

C1_Witness ==
    /\ rn_pc = "done"
    /\ rn_prog = "doubao"
    /\ HadArtifact(1) /\ rn_raw[1] = "text" /\ CallsFor(1) = {}
    /\ rn_outcome[1] = "cache_hit"
    /\ rn_disk0[2] = "blank" /\ rn_raw[2] = "text" /\ CallsFor(2) # {}
    /\ rn_outcome[2] = "completed"

\* every attempt of the translation call of batch k failed
OracleFailed(k) ==
    \E e \in 1..Len(rn_events) : rn_events[e] = Event("raise", k, "translate")

Succeeded(k) ==
    rn_outcome[k] \in {"completed", "completed_with_warnings", "cache_hit"}

\* C4: in translator.py, when every oracle attempt for batch K fails, K is
\* recorded as failed, the loop goes on with batch K+1 and to the end of the
\* batches, the report lists K among the failed batches, and the assembled
\* document is produced from the batches that succeeded.
C4_FailedBatchDoesNotAbort ==
    rn_prog = "translator" =>
        \A k \in DOMAIN rn_outcome :
            OracleFailed(k) =>
                /\ rn_outcome[k] = "failed"
                /\ k \in DOMAIN rn_MISSING
                /\ HasFailureEntry(rn_MISSING[k])
                /\ rn_k > k
                /\ rn_pc \in {"loop", "style_call", "translate_call", "done"}
                /\ rn_pc = "done" =>
                      /\ \A j \in DOMAIN rn_outcome : Processed(j)
                      /\ k \in rn_report.failed_batches
                      /\ \A j \in DOMAIN rn_outcome :
                             Succeeded(j) =>
                                 /\ rn_doc # NoFile
                                 /\ \E i \in 1..Len(rn_doc.body) :
                                        rn_doc.body[i] = rn_disk[j]

C4_Witness ==
    /\ rn_prog = "translator"
    /\ rn_pc = "done"
    /\ OracleFailed(1)
    /\ rn_report.failed_batches = {1}
    /\ rn_outcome[2] = "completed"
    /\ TranslateCallsFor(2) # {}
    /\ rn_doc # NoFile

\* the artifact of batch i was written before position e of the event log
WrittenBefore(i, e) ==
    \E w \in 1..(e - 1) : rn_events[w].type = "write" /\ rn_events[w].batch = i

Completed(k) == rn_outcome[k] \in {"completed", "completed_with_warnings"}

\* C9: batches are handled in strictly increasing id order with at most one
\* oracle dispatch in flight; the artifact of a completed batch K is on disk
\* before any oracle call for a batch with a larger id begins, so that a
\* resumed run finds it with the cache check and does not redo K.
C9_SequentialDurable ==
    /\ Cardinality(rn_inflight) <= 1
    /\ \A a, b \in 1..Len(rn_events) :
           (a < b /\ rn_events[a].type = "start" /\ rn_events[b].type = "start")
               => rn_events[a].batch < rn_events[b].batch
    /\ \A a, b \in 1..Len(rn_events) : a < b => rn_events[a].batch <= rn_events[b].batch
    /\ \A e \in 1..Len(rn_events) :
           rn_events[e].type = "call" =>
               \A i \in 1..(rn_events[e].batch - 1) :
                   Completed(i) => WrittenBefore(i, e)
    /\ \A k \in DOMAIN rn_outcome :
           Completed(k) => /\ CacheHit(rn_disk[k])
                           /\ rn_disk[k].batch = k
                           /\ rn_disk[k].kind \in {"body", "tagged"}

C9_Witness ==
    /\ rn_pc = "done"
    /\ rn_prog = "translator"
    /\ Completed(1) /\ Completed(2)
    /\ \E c \in TranslateCallsFor(2) : WrittenBefore(1, c)

\* C11: every batch that ends the run failed, whatever the cause, has a
\* visible placeholder in the assembled document: no failed batch is absent
\* from it.
C11_FailedBatchPlaceholder ==
    rn_pc = "done" =>
        \A k \in DOMAIN rn_outcome :
            rn_outcome[k] = "failed" =>
                /\ rn_doc # NoFile
                /\ \E i \in 1..Len(rn_doc.body) : rn_doc.body[i].batch = k

\* the pages that belong to batch k
PagesOf(k) == {p \in 1..TotalPages : (p + PagesPerBatch - 1) \div PagesPerBatch = k}

\* C12: the retry scope written at the end of a translator.py run holds
\* exactly the ids of the batches that failed in the run, each once and with
\* its own page range, and never a batch that completed, completed with
\* warnings or was served from cache; it is written whenever a batch failed.
C12_RetryScopeExact ==
    (rn_pc = "done" /\ rn_prog = "translator") =>
        LET failed == {k \in DOMAIN rn_outcome : rn_outcome[k] = "failed"}
        IN  /\ failed # {} <=> rn_retry # NoRetry
            /\ rn_retry # NoRetry =>
                  /\ {rn_retry[i].batch_num : i \in 1..Len(rn_retry)} = failed
                  /\ Len(rn_retry) = Cardinality(failed)
                  /\ \A i \in 1..Len(rn_retry) :
                         /\ ~Succeeded(rn_retry[i].batch_num)
                         /\ rn_retry[i].pages[1] = Min(PagesOf(rn_retry[i].batch_num))
                         /\ rn_retry[i].pages[2] = Max(PagesOf(rn_retry[i].batch_num))

C12_Witness ==
    /\ rn_pc = "done"
    /\ rn_prog = "translator"
    /\ rn_outcome = <<"completed_with_warnings", "failed">>
    /\ rn_retry = <<[batch_num |-> 2, pages |-> <<3, 3>>]>>

\* the units of a response that leave text in the cleaned result
CleanUnits(llm_out) ==
    SelectSeq(Enumerate(llm_out), LAMBDA e : e.kind \in {"T", "M"})

\* C13: in translator.py, when the cleaned text of a response is empty the
\* batch is recorded as failed and counted among the failed batches; when it
\* is partial but not empty the batch is accepted (completed, or completed
\* with warnings), the cleaned text is the artifact and part of the output,
\* and its defects are recorded: each placeholder and each dropped index as
\* an entry of MISSING_DICT, dropped indices also as a warning.
C13_EmptyFailsPartialAccepted ==
    [][\A llm_out \in RunResponses :
           TranslatorReturn(llm_out, "ok") =>
               LET k == rn_k
                   report == Report(rn_MISSING', rn_WARNING')
                   dropped == (1..RunSegs) \ {llm_out[p].idx : p \in 1..Len(llm_out)}
                   placeholders == {p \in 1..Len(llm_out) : llm_out[p].kind = "M"}
               IN  IF CleanUnits(llm_out) = <<>>
                   THEN /\ rn_outcome'[k] = "failed"
                        /\ k \in report.failed_batches
                        /\ k \notin report.successful_batches
                        /\ rn_disk'[k].kind = "parse_error"
                   ELSE /\ rn_outcome'[k] \in {"completed", "completed_with_warnings"}
                        /\ k \notin report.failed_batches
                        /\ rn_disk'[k] = File("body", k, CleanUnits(llm_out))
                        /\ rn_parts'[Len(rn_parts')] = rn_disk'[k]
                        /\ \A d \in dropped :
                               \E i \in 1..Len(rn_MISSING'[k]) :
                                   rn_MISSING'[k][i] = Seg(d)
                        /\ placeholders # {} => rn_MISSING'[k] # <<>>
                        /\ dropped # {} => k \in report.warnings
                        /\ (dropped # {} \/ placeholders # {}) =>
                               /\ rn_outcome'[k] = "completed_with_warnings"
                               /\ k \in report.batches_with_missing]_vars_rn

C13_Witness ==
    /\ rn_prog = "translator"
    /\ rn_outcome = <<"failed", "completed_with_warnings">>
    /\ rn_disk[1].kind = "parse_error"
    /\ rn_MISSING[1] = <<Marker("parse_failed")>>
    /\ rn_disk[2] = File("body", 2, CleanUnits(DroppedResp(RunSegs)))

\* C14: in translator.py a batch whose raw text yields no segment causes no
\* oracle call and is reported neither as failed nor as having missing
\* segments.
C14_EmptyBatchCompleted ==
    (rn_pc = "done" /\ rn_prog = "translator") =>
        \A k \in DOMAIN rn_outcome :
            (rn_raw[k] = "blank" /\ ~HadArtifact(k)) =>
                /\ CallsFor(k) = {}
                /\ k \notin rn_report.failed_batches
                /\ k \notin rn_report.batches_with_missing
                /\ k \in DOMAIN rn_MISSING =>
                       SelectSeq(rn_MISSING[k], CountsAsMissing) = <<>>

\* content is one of the parts of the assembled document
InDocument(doc, content) ==
    /\ doc # NoFile
    /\ \E i \in 1..Len(doc.body) : doc.body[i] = content

\* C15: a batch that translator.py flags as suspect (dropped indices, or
\* drift above the threshold) is not discarded: its cleaned text is written
\* to the batch artifact and added to the output, the artifact stays as
\* written for the rest of the run, the assembled document includes it and
\* the report carries a warning for the batch.
C15_SuspectBatchKept ==
    [][/\ \A llm_out \in RunResponses :
              (/\ TranslatorReturn(llm_out, "ok")
               /\ ValidateBatch(RunSegs, llm_out).warning # "none") =>
                  /\ rn_disk'[rn_k] = File("body", rn_k, CleanUnits(llm_out))
                  /\ CleanUnits(llm_out) # <<>>
                  /\ rn_parts' = Append(rn_parts, rn_disk'[rn_k])
                  /\ rn_k \in DOMAIN rn_WARNING'
                  /\ rn_outcome'[rn_k] = "completed_with_warnings"
       /\ \A k \in DOMAIN rn_disk :
              rn_disk[k].kind = "body" => rn_disk'[k] = rn_disk[k]
       /\ \A k \in DOMAIN rn_WARNING :
              /\ k \in DOMAIN rn_WARNING'
              /\ (Finish /\ rn_prog = "translator") =>
                     /\ k \in rn_report'.warnings
                     /\ rn_disk[k].kind = "body" => InDocument(rn_doc', rn_disk[k])
      ]_vars_rn

C15_Witness ==
    /\ rn_pc = "done"
    /\ rn_prog = "translator"
    /\ rn_WARNING = <<"drift", "dropped">>
    /\ rn_report.warnings = {1, 2}
    /\ InDocument(rn_doc, File("body", 1, CleanUnits(PartSuppressedResp(RunSegs))))
    /\ InDocument(rn_doc, File("body", 2, CleanUnits(DroppedResp(RunSegs))))


\* the style requests in a log of events
StyleCalls(events) ==
    {e \in 1..Len(events) : events[e].type = "call" /\ events[e].what = "style"}

\* C19: within one run of translator.py the style profile is generated at
\* most once and does not change afterwards: once style_cache is non-empty
\* (from the style file, from the oracle, or the default after a failed style
\* request) no later step changes it or issues another style request, and a
\* failed style request leaves the batch on its way to the translation call.
C19_StyleOnceImmutable ==
    [][rn_prog = "translator" =>
          /\ rn_style # "" =>
                 /\ rn_style' = rn_style
                 /\ StyleCalls(rn_events') = StyleCalls(rn_events)
          /\ Cardinality(StyleCalls(rn_events')) <= 1
          /\ StyleReturn(FALSE) =>
                 /\ rn_style' = "default"
                 /\ rn_pc' = "translate_call"
                 /\ rn_outcome' = rn_outcome
                 /\ rn_MISSING' = rn_MISSING
      ]_vars_rn

C19_Witness ==
    /\ rn_pc = "done"
    /\ rn_prog = "translator"
    /\ rn_style = "default"
    /\ rn_outcome = <<"completed", "completed">>
    /\ Cardinality(StyleCalls(rn_events)) = 1
    /\ Cardinality(TranslateCallsFor(2)) = 1


\* the iterations of the loop that looked at batch k
StartsFor(k) ==
    {e \in 1..Len(rn_events) :
         rn_events[e].type = "start" /\ rn_events[e].batch = k}

BatchOutcomes ==
    {"cache_hit", "empty", "completed", "completed_with_warnings", "failed"}

C29_FailedBatchRedispatched ==
    (rn_pc = "done" /\ rn_prog = "translator") =>
        \A k \in Batches :
            (/\ k \in DOMAIN rn_MISSING
             /\ rn_MISSING[k] \in {<<Marker("translate_failed")>>,
                                   <<Marker("parse_failed")>>}) =>
                ~CacheHit(rn_disk[k])


\* C30: at the end of a run of translator.py or translator_doubao.py every
\* batch id in 1..total_batches is accounted for: it is represented in the
\* assembled output (big_md_parts) or recorded in MISSING_DICT, never in
\* neither, also when saving the batch artifact fails.
C30_EveryBatchAccounted ==
    rn_pc = "done" =>
        \A k \in Batches :
            \/ \E i \in 1..Len(rn_parts) : rn_parts[i].batch = k
            \/ k \in DOMAIN rn_MISSING


\* C31: in the final report of translator.py the succeeded count and the
\* failed count describe disjoint sets of batches: no batch is counted both
\* as successfully processed and as failed, and succeeded + failed never
\* exceeds the total number of batches.
C31_SucceededFailedDisjoint ==
    (rn_pc = "done" /\ rn_prog = "translator") =>
        LET counted_success == {k \in DOMAIN rn_MISSING :
                                    ~HasProcessError(rn_MISSING[k])}
        IN  /\ rn_report.processed_batches_success = Cardinality(counted_success)
            /\ counted_success \cap rn_report.failed_batches = {}
            /\ rn_report.processed_batches_success
                   + Cardinality(rn_report.failed_batches)
                   <= rn_report.total_batches


\* the batches this run served from the cache
CachedBatches == {k \in DOMAIN rn_outcome : rn_outcome[k] = "cache_hit"}

\* what the clean-and-parse block records for a batch whose response is
\* llm_out: MISSING_DICT[batch_id], and WARNING_DICT[batch_id] if any
BatchRecord(llm_out) ==
    LET v      == ValidateBatch(RunSegs, llm_out)
        parsed == v.status = "validated"
    IN  [miss    |-> IF parsed THEN [i \in 1..Len(v.miss) |-> Seg(v.miss[i])]
                     ELSE <<Marker("parse_failed")>>,
         warning |-> IF parsed THEN v.warning ELSE "none"]

\* MISSING_DICT and WARNING_DICT of a run that starts with MISSING_DICT = {}
\* and WARNING_DICT = {} on an empty output directory and gets the response
\* prev[k] for each batch k of cached, and for the other batches what this
\* run got
UninterruptedMISSING(cached, prev) ==
    [k \in cached \cup DOMAIN rn_MISSING |->
        IF k \in cached THEN BatchRecord(prev[k]).miss ELSE rn_MISSING[k]]

UninterruptedWARNING(cached, prev) ==
    [k \in {c \in cached : BatchRecord(prev[c]).warning # "none"}
              \cup DOMAIN rn_WARNING |->
        IF k \in cached THEN BatchRecord(prev[k]).warning ELSE rn_WARNING[k]]

\* C32: the quality report written by a resumed run of translator.py (some
\* batches served from the cache) lists the same failed, missing-segment and
\* suspect batches as the report of an uninterrupted run over the same
\* document with the same oracle responses, whatever the responses were from
\* which the cached artifacts were written.
C32_ResumedReportSame ==
    (rn_pc = "done" /\ rn_prog = "translator") =>
        \A prev \in [CachedBatches -> RunResponses] :
            LET full == Report(UninterruptedMISSING(CachedBatches, prev),
                               UninterruptedWARNING(CachedBatches, prev))
            IN  /\ full.failed_batches = rn_report.failed_batches
                /\ full.batches_with_missing = rn_report.batches_with_missing
                /\ full.warnings = rn_report.warnings

-----------------------------------------------------------------------------
(* Re-translation of batches (retranslate_batch.py,                         *)
(* retranslate_diff_batches.py) and the chapter loop of                     *)
(* chapter_translation_agent_cn.py, with the glossary they maintain.        *)
(* A glossary is a Python dict: the sequence of its entries in insertion    *)
(* order, each key once.                                                    *)

\* the batches (chapters) of the output directory
NRtBatches == 1

\* how many retranslate_batch calls the main loop makes at most
MaxRetranslations == 2

\* the longest glossary block of a response
MaxProposals == 1

RtBatches == 1..NRtBatches

\* the chapters of CHAP_MAP
NChapters == 2

Chapters == 1..NChapters

\* the files of the output directory the tool works on
FilesOf(tool) == IF tool = "chapter_agent" THEN Chapters ELSE RtBatches

Tools ==
    {"retranslate_batch", "retranslate_diff_batches", "chapter_agent",
     "clean_specific_batches"}

\* the tools that re-translate a batch
Retranslators == {"retranslate_batch", "retranslate_diff_batches"}

Terms == {"Khun", "Phi"}

\* the order of the terms as strings
TermRank(src) == IF src = "Khun" THEN 1 ELSE 2

Renderings == {"", "x", "y"}

Entry(src, tgt) == [src |-> src, tgt |-> tgt]

\* the lines of a glossary block: source, separator, target
Lines == {Entry(s, t) : s \in Terms, t \in Renderings}

NewTermBlocks == SeqsUpTo(Lines, MaxProposals)

Keys(glossary) == {glossary[i].src : i \in 1..Len(glossary)}

\* glossary[src]
Lookup(glossary, src) ==
    glossary[CHOOSE i \in 1..Len(glossary) : glossary[i].src = src].tgt

\* glossary[src] = tgt: a new key goes last, an old key keeps its place
Put(glossary, src, tgt) ==
    IF src \in Keys(glossary)
    THEN [i \in 1..Len(glossary) |->
             IF glossary[i].src = src THEN Entry(src, tgt) ELSE glossary[i]]
    ELSE Append(glossary, Entry(src, tgt))

\* retranslate_batch: if src and tgt and src not in glossary
RECURSIVE MergeNewTerms(_, _)
MergeNewTerms(glossary, lines) ==
    IF lines = <<>> THEN [glossary |-> glossary, new_terms_count |-> 0]
    ELSE LET line == Head(lines)
             add  == line.src # "" /\ line.tgt # "" /\ line.src \notin Keys(glossary)
             rest == MergeNewTerms(
                         IF add THEN Put(glossary, line.src, line.tgt) ELSE glossary,
                         Tail(lines))
         IN  [glossary |-> rest.glossary,
              new_terms_count |-> rest.new_terms_count + (IF add THEN 1 ELSE 0)]

\* update_glossary_from_translation: if glossary.get(src) != tgt
RECURSIVE UpdateGlossary(_, _)
UpdateGlossary(glossary, lines) ==
    IF lines = <<>> THEN glossary
    ELSE LET line == Head(lines)
             differs == \/ line.src \notin Keys(glossary)
                        \/ Lookup(glossary, line.src) # line.tgt
         IN  UpdateGlossary(
                 IF differs THEN Put(glossary, line.src, line.tgt) ELSE glossary,
                 Tail(lines))

\* yaml.safe_dump writes the keys in sorted order
RECURSIVE SortedByKey(_)
SortedByKey(glossary) ==
    IF glossary = <<>> THEN <<>>
    ELSE LET first == CHOOSE i \in 1..Len(glossary) :
                          \A j \in 1..Len(glossary) :
                              TermRank(glossary[i].src) <= TermRank(glossary[j].src)
         IN  <<glossary[first]>> \o
             SortedByKey(SubSeq(glossary, 1, first - 1) \o
                         SubSeq(glossary, first + 1, Len(glossary)))

\* the glossary file is absent
NoGlossary == <<Entry("", "")>>

\* load_glossary: an absent file gives the empty glossary
load_glossary(glossfile) == IF glossfile = NoGlossary THEN <<>> ELSE glossfile

\* strip_tags of the re-translation tools: only a marker suppresses a unit
retranslate_strip_tags(llm_output, keep_missing) ==
    LET paragraphs == Enumerate(llm_output)
        IsMiss(e)  == e.kind = "M"
        IsClean(e) == IF IsMiss(e) THEN keep_missing ELSE e.kind \notin {"E", "H"}
        missed     == SelectSeq(paragraphs, IsMiss)
    IN  [pure_text |-> SelectSeq(paragraphs, IsClean),
         miss_list |-> [i \in 1..Len(missed) |-> missed[i].pos]]

RtResponses ==
    {FullResp(RunSegs), PlaceholderResp(RunSegs), SuppressedResp(RunSegs)}

\* a backup that removes the prior artifact instead of keeping it
RenameToBackup_Unlink(artifact, backup, k) ==
    [artifact |-> [artifact EXCEPT ![k] = NoFile], backup |-> backup]

\* output_file.rename(backup_file)
RenameToBackup(artifact, backup, k) ==
    [artifact |-> [artifact EXCEPT ![k] = NoFile],
     backup   |-> [backup EXCEPT ![k] = artifact[k]]]

\* Path.rename onto an existing file: replaced silently on POSIX,
\* FileExistsError on Windows
RenameRaises(platform, backup, k) == platform = "windows" /\ backup[k] # NoFile

\* merge_markdown: the non-empty *.md files in sorted order
merge_markdown(artifact) ==
    LET HasContent(f) == f.kind \notin {"nofile", "blank"}
    IN  File("document", 0,
             SelectSeq([k \in 1..Len(artifact) |-> artifact[k]], HasContent))

NoCallYet == [batch |-> 0, prior |-> NoFile, status |-> "none"]

\* a request whose glossary block lost the glossary
gloss_block_Blank(glossary) == <<>>

\* gloss_block: one line "source TAB target" per item of the dict, in its order
gloss_block(glossary) == glossary

NoRequest == [batch |-> 0, gloss_block |-> <<>>]

\* strip_tags of clean_specific_batches.py: empty content and the two
\* markers suppress a unit
clean_strip_tags(llm_output, keep_missing) ==
    LET paragraphs == Enumerate(llm_output)
        IsMiss(e)  == e.kind = "M"
        IsClean(e) == IF IsMiss(e) THEN keep_missing ELSE e.kind \notin {"E", "H"}
        missed     == SelectSeq(paragraphs, IsMiss)
    IN  [pure_text |-> SelectSeq(paragraphs, IsClean),
         miss_list |-> [i \in 1..Len(missed) |-> missed[i].pos]]

\* re.search(r'<c\d+>', content)
HasTags(file) == file.kind = "tagged"

\* what clean_batch_file can find as batch file: none, one it cannot read,
\* text without tags, a tagged response saved as it came
CleanInputs ==
    {NoFile}
    \cup {File(kind, k, <<>>) : kind \in {"unreadable", "old"}, k \in RtBatches}
    \cup {File("tagged", k, Enumerate(r)) : r \in RtResponses, k \in RtBatches}

Init_rt ==
    /\ rt_tool \in Tools
    /\ rt_platform \in (IF rt_tool \in Retranslators THEN {"posix", "windows"}
                        ELSE {"posix"})
    /\ rt_glossfile \in (IF rt_tool = "clean_specific_batches" THEN {NoGlossary}
                         ELSE {NoGlossary, <<Entry("Khun", "x")>>})
    /\ rt_glossary = load_glossary(rt_glossfile)
    /\ rt_artifact \in
           IF rt_tool = "clean_specific_batches"
           THEN {f \in [RtBatches -> CleanInputs] :
                     \A k \in RtBatches : f[k].batch \in {0, k}}
           ELSE {[k \in FilesOf(rt_tool) |-> IF k \in S THEN File("old", k, <<>>)
                                             ELSE NoFile] :
                     S \in SUBSET FilesOf(rt_tool)}
    /\ rt_backup \in
           IF rt_tool = "chapter_agent" THEN {[k \in Chapters |-> NoFile]}
           ELSE {[k \in RtBatches |-> IF k \in S THEN File("old_backup", k, <<>>)
                                      ELSE NoFile] : S \in SUBSET RtBatches}
    /\ rt_raw \in IF rt_tool = "chapter_agent" THEN {[k \in Chapters |-> TRUE]}
                  ELSE IF rt_tool = "clean_specific_batches"
                  THEN {[k \in RtBatches |-> TRUE]}
                  ELSE [RtBatches -> BOOLEAN]
    /\ rt_style \in IF rt_tool = "chapter_agent" THEN {"", "file"} ELSE {""}
    /\ rt_pc = IF rt_tool = "chapter_agent" THEN "style" ELSE "main"
    /\ rt_k = IF rt_tool = "chapter_agent" THEN 1 ELSE 0
    /\ rt_count = 0
    /\ rt_success = 0
    /\ rt_call = NoCallYet
    /\ rt_body = <<>>
    /\ rt_doc = NoFile
    /\ rt_request = NoRequest

Idle_rt ==
    /\ rt_tool = "none"
    /\ rt_platform = "posix"
    /\ rt_glossfile = NoGlossary
    /\ rt_glossary = <<>>
    /\ rt_artifact = <<>>
    /\ rt_backup = <<>>
    /\ rt_raw = <<>>
    /\ rt_style = ""
    /\ rt_pc = "idle"
    /\ rt_k = 0
    /\ rt_count = 0
    /\ rt_success = 0
    /\ rt_call = NoCallYet
    /\ rt_body = <<>>
    /\ rt_doc = NoFile
    /\ rt_request = NoRequest

\* a return that counts the failed call as a success
ReturnFalse_Counted ==
    /\ rt_pc' = "main"
    /\ rt_call' = [rt_call EXCEPT !.status = "False"]
    /\ rt_body' = <<>>
    /\ rt_success' = rt_success + 1

\* retranslate_batch returns False: the main loop goes on
ReturnFalse ==
    /\ rt_pc' = "main"
    /\ rt_call' = [rt_call EXCEPT !.status = "False"]
    /\ rt_body' = <<>>
    /\ UNCHANGED rt_success

\* the main loop calls retranslate_batch(batch_num): the raw text is looked up
RetranslateBegin(batch_num) ==
    /\ rt_tool \in Retranslators
    /\ rt_pc = "main"
    /\ rt_count < MaxRetranslations
    /\ rt_count' = rt_count + 1
    /\ rt_k' = batch_num
    /\ IF rt_raw[batch_num]
       THEN /\ rt_pc' = "oracle"
            /\ rt_call' = [batch |-> batch_num, prior |-> rt_artifact[batch_num],
                           status |-> "running"]
            /\ rt_request' = [batch |-> batch_num,
                              gloss_block |-> gloss_block(rt_glossary)]
       ELSE /\ rt_pc' = "main"
            /\ rt_call' = [batch |-> batch_num, prior |-> rt_artifact[batch_num],
                           status |-> "False"]
            /\ UNCHANGED rt_request
    /\ UNCHANGED <<rt_tool, rt_platform, rt_glossfile, rt_glossary, rt_artifact,
                   rt_backup, rt_raw, rt_style, rt_success, rt_body, rt_doc>>
    /\ UNCHANGED others_rt

\* call_llm raised, or the response has no text left after strip_tags;
\* the request is over
RetranslateFails ==
    /\ rt_pc = "oracle"
    /\ ReturnFalse
    /\ UNCHANGED <<rt_tool, rt_platform, rt_glossfile, rt_glossary, rt_artifact,
                   rt_backup, rt_raw, rt_style, rt_k, rt_count, rt_doc>>
    /\ rt_request' = NoRequest
    /\ UNCHANGED others_rt

\* the oracle answered: strip_tags, the check of cn_body, the glossary merge
\* and, when terms were added, the glossary file
RetranslateOracle(llm_output, new_terms_block) ==
    /\ rt_pc = "oracle"
    /\ \E cn_body \in {retranslate_strip_tags(llm_output, TRUE).pure_text},
          merged \in {MergeNewTerms(rt_glossary, new_terms_block)} :
           IF cn_body = <<>>
           THEN /\ new_terms_block = <<>>
                /\ ReturnFalse
                /\ UNCHANGED <<rt_glossary, rt_glossfile>>
           ELSE /\ rt_glossary' = merged.glossary
                /\ rt_glossfile' = IF merged.new_terms_count > 0
                                   THEN merged.glossary ELSE rt_glossfile
                /\ rt_body' = cn_body
                /\ rt_pc' = IF rt_artifact[rt_k] # NoFile THEN "rename" ELSE "write"
                /\ UNCHANGED <<rt_call, rt_success>>
    /\ UNCHANGED <<rt_tool, rt_platform, rt_artifact, rt_backup, rt_raw, rt_style,
                   rt_k, rt_count, rt_doc>>
    /\ rt_request' = NoRequest
    /\ UNCHANGED others_rt

\* if output_file.exists(): output_file.rename(backup_file)
RetranslateBackup(rename) ==
    /\ rt_pc = "rename"
    /\ RenameRaises(rt_platform, rt_backup, rt_k) => rename = "raises"
    /\ IF rename = "ok"
       THEN LET files == RenameToBackup(rt_artifact, rt_backup, rt_k)
            IN  /\ rt_artifact' = files.artifact
                /\ rt_backup' = files.backup
                /\ rt_pc' = "write"
                /\ UNCHANGED <<rt_call, rt_body, rt_success>>
       ELSE /\ ReturnFalse
            /\ UNCHANGED <<rt_artifact, rt_backup>>
    /\ UNCHANGED <<rt_tool, rt_platform, rt_glossfile, rt_glossary, rt_raw,
                   rt_style, rt_k, rt_count, rt_doc,
                   rt_request>>
    /\ UNCHANGED others_rt

\* output_file.write_text(cn_body); return True
RetranslateWrite(write) ==
    /\ rt_pc = "write"
    /\ IF write = "ok"
       THEN /\ rt_artifact' = WriteText(rt_artifact, rt_k, File("body", rt_k, rt_body))
            /\ rt_call' = [rt_call EXCEPT !.status = "True"]
            /\ rt_success' = rt_success + 1
            /\ rt_pc' = "main"
            /\ rt_body' = <<>>
       ELSE /\ ReturnFalse
            /\ UNCHANGED rt_artifact
    /\ UNCHANGED <<rt_tool, rt_platform, rt_glossfile, rt_glossary, rt_backup,
                   rt_raw, rt_style, rt_k, rt_count, rt_doc,
                   rt_request>>
    /\ UNCHANGED others_rt

\* the main loop is over: the whole book is merged again if a batch succeeded
RetranslateFinish ==
    /\ rt_tool \in Retranslators
    /\ rt_pc = "main"
    /\ rt_pc' = "done"
    /\ rt_doc' = IF rt_success > 0 THEN merge_markdown(rt_artifact) ELSE rt_doc
    /\ UNCHANGED <<rt_tool, rt_platform, rt_glossfile, rt_glossary, rt_artifact,
                   rt_backup, rt_raw, rt_style, rt_k, rt_count, rt_success,
                   rt_call, rt_body, rt_request>>
    /\ UNCHANGED others_rt

\* clean_batch_file(batch_num, output_dir), called by the loop of main
CleanBatchFile(batch_num, rename, write) ==
    /\ rt_tool = "clean_specific_batches"
    /\ rt_pc = "main"
    /\ rt_count < MaxRetranslations
    /\ rt_count' = rt_count + 1
    /\ rt_k' = batch_num
    /\ \E content \in {rt_artifact[batch_num]} :
       \E clean_content \in {IF HasTags(content)
                              THEN clean_strip_tags(content.body, TRUE).pure_text
                              ELSE <<>>} :
       LET returns(result) ==
               /\ rt_call' = [batch |-> batch_num, prior |-> content,
                              status |-> result]
               /\ rt_success' = IF result = "True" THEN rt_success + 1
                                ELSE rt_success
           cleaned == File("body", batch_num, clean_content)
       IN  IF content.kind \in {"nofile", "unreadable"}
           THEN \* no such file, or read_text raises
                /\ rename = "ok" /\ write = "ok"
                /\ returns("False")
                /\ UNCHANGED <<rt_artifact, rt_backup>>
           ELSE IF ~HasTags(content)
           THEN \* nothing to clean
                /\ rename = "ok" /\ write = "ok"
                /\ returns("True")
                /\ UNCHANGED <<rt_artifact, rt_backup>>
           ELSE IF clean_content = <<>>
           THEN /\ rename = "ok" /\ write = "ok"
                /\ returns("False")
                /\ UNCHANGED <<rt_artifact, rt_backup>>
           ELSE IF rt_backup[batch_num] = NoFile
           THEN \* if not backup_file.exists(): batch_file.rename(backup_file)
                IF rename = "raises"
                THEN /\ write = "ok"
                     /\ returns("False")
                     /\ UNCHANGED <<rt_artifact, rt_backup>>
                ELSE LET files == RenameToBackup(rt_artifact, rt_backup, batch_num)
                     IN  /\ rt_backup' = files.backup
                         /\ rt_artifact' =
                                IF write = "ok"
                                THEN WriteText(files.artifact, batch_num, cleaned)
                                ELSE files.artifact
                         /\ returns(IF write = "ok" THEN "True" ELSE "False")
           ELSE \* a backup exists: the batch file is written as it is
                /\ rename = "ok"
                /\ rt_artifact' = IF write = "ok"
                                  THEN WriteText(rt_artifact, batch_num, cleaned)
                                  ELSE rt_artifact
                /\ returns(IF write = "ok" THEN "True" ELSE "False")
                /\ UNCHANGED rt_backup
    /\ UNCHANGED <<rt_tool, rt_platform, rt_glossfile, rt_glossary, rt_raw,
                   rt_style, rt_pc, rt_body, rt_doc, rt_request>>
    /\ UNCHANGED others_rt

\* main of clean_specific_batches.py: the loop over batches_to_clean is over
CleanFinish ==
    /\ rt_tool = "clean_specific_batches"
    /\ rt_pc = "main"
    /\ rt_pc' = "done"
    /\ UNCHANGED <<rt_tool, rt_platform, rt_glossfile, rt_glossary, rt_artifact,
                   rt_backup, rt_raw, rt_style, rt_k, rt_count, rt_success,
                   rt_call, rt_body, rt_doc, rt_request>>
    /\ UNCHANGED others_rt

\* chapter agent, main: refresh_style; a failed call ends the program
ChapterRefreshStyle(ok) ==
    /\ rt_pc = "style"
    /\ IF rt_style # ""
       THEN /\ ok
            /\ rt_pc' = "chapters"
            /\ UNCHANGED rt_style
       ELSE IF ok
       THEN /\ rt_style' = "oracle"
            /\ rt_pc' = "chapters"
       ELSE /\ rt_pc' = "crashed"
            /\ UNCHANGED rt_style
    /\ UNCHANGED <<rt_tool, rt_platform, rt_glossfile, rt_glossary, rt_artifact,
                   rt_backup, rt_raw, rt_k, rt_count, rt_success, rt_call,
                   rt_body, rt_doc,
                   rt_request>>
    /\ UNCHANGED others_rt

\* chapter agent: the chapter file exists, the chapter is skipped
ChapterSkip ==
    /\ rt_pc = "chapters"
    /\ rt_k \in Chapters
    /\ rt_artifact[rt_k] # NoFile
    /\ rt_k' = rt_k + 1
    /\ UNCHANGED <<rt_tool, rt_platform, rt_glossfile, rt_glossary, rt_artifact,
                   rt_backup, rt_raw, rt_style, rt_pc, rt_count, rt_success,
                   rt_call, rt_body, rt_doc,
                   rt_request>>
    /\ UNCHANGED others_rt

\* chapter agent: call_llm raised after its retries, nothing catches it
ChapterFails ==
    /\ rt_pc = "chapters"
    /\ rt_k \in Chapters
    /\ rt_artifact[rt_k] = NoFile
    /\ rt_pc' = "crashed"
    /\ UNCHANGED <<rt_tool, rt_platform, rt_glossfile, rt_glossary, rt_artifact,
                   rt_backup, rt_raw, rt_style, rt_k, rt_count, rt_success,
                   rt_call, rt_body, rt_doc,
                   rt_request>>
    /\ UNCHANGED others_rt

\* chapter agent: the chapter is translated, the glossary block of the
\* response (if it has one) is merged and saved, the chapter file is written
ChapterTranslate(trans, has_block, lines) ==
    /\ rt_pc = "chapters"
    /\ rt_k \in Chapters
    /\ rt_artifact[rt_k] = NoFile
    /\ ~has_block => lines = <<>>
    /\ rt_request' = [batch |-> rt_k, gloss_block |-> gloss_block(rt_glossary)]
    /\ \E updated \in {UpdateGlossary(rt_glossary, lines)} :
           /\ rt_glossary' = IF has_block THEN updated ELSE rt_glossary
           /\ rt_glossfile' = IF has_block THEN SortedByKey(updated)
                              ELSE rt_glossfile
    /\ rt_artifact' = WriteText(rt_artifact, rt_k,
                                File("chapter", rt_k, Enumerate(trans)))
    /\ rt_k' = rt_k + 1
    /\ UNCHANGED <<rt_tool, rt_platform, rt_backup, rt_raw, rt_style, rt_pc,
                   rt_count, rt_success, rt_call, rt_body, rt_doc>>
    /\ UNCHANGED others_rt

\* chapter agent: all chapters done
ChapterFinish ==
    /\ rt_pc = "chapters"
    /\ rt_k = NChapters + 1
    /\ rt_pc' = "done"
    /\ UNCHANGED <<rt_tool, rt_platform, rt_glossfile, rt_glossary, rt_artifact,
                   rt_backup, rt_raw, rt_style, rt_k, rt_count, rt_success,
                   rt_call, rt_body, rt_doc,
                   rt_request>>
    /\ UNCHANGED others_rt

Next_rt ==
    \/ \E batch_num \in RtBatches : RetranslateBegin(batch_num)
    \/ RetranslateFails
    \/ \E llm_output \in RtResponses, new_terms_block \in NewTermBlocks :
           RetranslateOracle(llm_output, new_terms_block)
    \/ \E rename \in WriteOutcomes : RetranslateBackup(rename)
    \/ \E write \in WriteOutcomes : RetranslateWrite(write)
    \/ RetranslateFinish
    \/ \E batch_num \in RtBatches, rename \in WriteOutcomes, write \in WriteOutcomes :
           CleanBatchFile(batch_num, rename, write)
    \/ CleanFinish
    \/ \E ok \in BOOLEAN : ChapterRefreshStyle(ok)
    \/ ChapterSkip
    \/ ChapterFails
    \/ \E trans \in RtResponses, has_block \in BOOLEAN, lines \in NewTermBlocks :
           ChapterTranslate(trans, has_block, lines)
    \/ ChapterFinish

\* C3: across any sequence of glossary merges, once a source term is a key of
\* the glossary its target rendering never changes: a later proposal for an
\* existing key is ignored.
C3_GlossaryMonotone ==
    [][\A src \in Keys(rt_glossary) :
           /\ src \in Keys(rt_glossary')
           /\ Lookup(rt_glossary', src) = Lookup(rt_glossary, src)]_vars_rt

\* C10: on a successful re-translation of batch K whose artifact existed, the
\* prior artifact is in the .backup file before the new content is written,
\* its content is at no time in neither file, and once the call has returned
\* True the backup holds exactly the content the artifact had before the call
\* and the artifact holds the new translation.
C10_BackupBeforeWrite ==
    (rt_tool \in Retranslators /\ rt_call.status # "none" /\ rt_call.prior # NoFile) =>
        /\ rt_call.prior \in {rt_artifact[rt_call.batch], rt_backup[rt_call.batch]}
        /\ rt_pc = "write" => rt_backup[rt_call.batch] = rt_call.prior
        /\ rt_call.status = "True" =>
              /\ rt_backup[rt_call.batch] = rt_call.prior
              /\ rt_artifact[rt_call.batch].kind = "body"

C10_Witness ==
    /\ rt_call.status = "True"
    /\ rt_call.prior = File("old", 1, <<>>)
    /\ rt_backup[1] = File("old", 1, <<>>)
    /\ rt_artifact[1].kind = "body"
    /\ rt_platform = "posix"
    /\ rt_count = 1

\* the step of the chapter loop that translates chapter rt_k: prompt, call,
\* merge and write (a skipped chapter has its file, a failed call ends the loop)
ChapterStep ==
    /\ rt_pc = "chapters"
    /\ rt_pc' = "chapters"
    /\ rt_k \in Chapters
    /\ rt_artifact[rt_k] = NoFile

\* a step in which the response of a request is handled: retranslate_batch
\* after call_llm, or the chapter loop
GlossaryMergeStep == rt_pc = "oracle" \/ ChapterStep

\* a step that builds the request of a batch (chapter): retranslate_batch up
\* to call_llm, or the chapter loop
RequestStep == (rt_pc = "main" /\ rt_pc' = "oracle") \/ ChapterStep

\* C16: in the loops of the re-translation tools and in the chapter loop, the
\* glossary block of the request built for a batch contains every entry the
\* glossary holds after the merge of the previous batch's response: only a
\* merge changes the in-memory glossary, and each request lists all of it.
C16_RequestCarriesMergedGlossary ==
    [][/\ ~GlossaryMergeStep => rt_glossary' = rt_glossary
       /\ RequestStep =>
              \A i \in 1..Len(rt_glossary) :
                  \E j \in 1..Len(rt_request'.gloss_block) :
                      rt_request'.gloss_block[j] = rt_glossary[i]
      ]_vars_rt

C16_Witness ==
    /\ rt_tool = "chapter_agent"
    /\ rt_glossfile = <<Entry("Khun", "x"), Entry("Phi", "y")>>
    /\ rt_request = [batch |-> 2, gloss_block |-> <<Entry("Phi", "y")>>]


\* C17: after each successful retranslate_batch call the glossary file holds
\* the in-memory glossary with its keys in ascending order.
C17_GlossaryFileSorted ==
    (/\ rt_tool \in {"retranslate_batch", "retranslate_diff_batches"}
     /\ rt_call.status = "True") =>
        load_glossary(rt_glossfile) = SortedByKey(rt_glossary)


\* C33: a backup file of batch K, once written, is never overwritten or
\* removed by any later retranslate_batch or clean_batch_file operation on
\* K, so the translation that existed before the first re-translation stays
\* recoverable after any number of re-translations.
C33_BackupNeverOverwritten ==
    [][(rt_tool \in Retranslators \cup {"clean_specific_batches"}) =>
           \A k \in DOMAIN rt_backup :
               (rt_backup[k] # NoFile => rt_backup'[k] = rt_backup[k])
      ]_vars_rt

\* C34: clean_batch_file never overwrites a batch artifact unless the content
\* the artifact held just before the overwrite is preserved in its .backup
\* sibling, in every state of the output directory including one where a
\* backup already exists.
C34_CleanPreservesPrior ==
    [][(rt_tool = "clean_specific_batches") =>
           \A k \in DOMAIN rt_artifact :
               (rt_artifact[k] # NoFile /\ rt_artifact'[k] # rt_artifact[k]) =>
                   rt_backup'[k] = rt_artifact[k]
      ]_vars_rt


\* a step in which retranslate_batch returns False because the raw text is
\* missing (from the loop of main), or because the oracle call failed or the
\* cleaned result is empty (from the oracle call)
FailedBeforeWrite ==
    /\ rt_tool \in Retranslators
    /\ rt_call'.status = "False"
    /\ \/ rt_pc = "main" /\ rt_count' # rt_count
       \/ rt_pc = "oracle"

\* C35: if retranslate_batch returns failure because the raw text is missing,
\* the oracle call failed or the cleaned result is empty, then the batch's
\* artifact, its backup and the glossary (in memory and on disk) are as
\* before the call (the call changes none of them up to the request, and the
\* failing return changes none), and the loop of main goes on with the
\* remaining batches without counting a success; the final document is
\* regenerated if and only if at least one batch was re-translated
\* successfully.
C35_FailureLeavesNoTrace ==
    /\ [][/\ (FailedBeforeWrite \/ (rt_pc = "main" /\ rt_pc' = "oracle")) =>
                 /\ rt_artifact' = rt_artifact
                 /\ rt_backup' = rt_backup
                 /\ rt_glossary' = rt_glossary
                 /\ rt_glossfile' = rt_glossfile
          /\ FailedBeforeWrite =>
                 /\ rt_pc' = "main"
                 /\ rt_success' = rt_success
                 /\ rt_doc' = rt_doc
         ]_vars_rt
    /\ []((rt_tool \in Retranslators /\ rt_pc = "done") =>
              (rt_doc # NoFile <=> rt_success > 0))

C35_Witness ==
    /\ rt_tool = "retranslate_batch"
    /\ rt_pc = "done"
    /\ rt_count = 2
    /\ rt_success = 1
    /\ rt_call.status = "False"
    /\ rt_call.prior.kind = "body"
    /\ rt_artifact[1] = rt_call.prior
    /\ rt_backup[1] = File("old", 1, <<>>)
    /\ rt_doc = merge_markdown(rt_artifact)

-----------------------------------------------------------------------------
(* Assembly of the final document from the files of a directory:            *)
(* merge_md.py and merge_markdown of the re-translation tools. A file name  *)
(* is the sequence of the character codes that follow "batch_".             *)

\* batch_{batch_num:03d}: the least number of digits of a batch id
BatchIdWidth == 3

\* the largest batch id of the directories looked at
MaxBatchId == 1000

MergeIds == {1, 2, 10, 100, MaxBatchId - 1, MaxBatchId}

\* ord of a digit, ord(".")
Ord(digit) == 48 + digit

OrdDot == 46

RECURSIVE Decimal(_)
Decimal(n) == IF n < 10 THEN <<n>> ELSE Append(Decimal(n \div 10), n % 10)

RECURSIVE ZeroPad(_, _)
ZeroPad(digits, width) ==
    IF Len(digits) >= width THEN digits ELSE ZeroPad(<<0>> \o digits, width)

\* what follows "batch_" in f"batch_{batch_num:03d}.md", up to the dot
BatchFileName(batch_num) ==
    LET digits == ZeroPad(Decimal(batch_num), BatchIdWidth)
    IN  [i \in 1..Len(digits) |-> Ord(digits[i])] \o <<OrdDot>>

\* a < b for Python strings
RECURSIVE StrLess(_, _)
StrLess(a, b) ==
    IF a = <<>> THEN b # <<>>
    ELSE IF b = <<>> THEN FALSE
    ELSE IF Head(a) # Head(b) THEN Head(a) < Head(b)
    ELSE StrLess(Tail(a), Tail(b))

\* a file of the directory
DirFile(batch_num, suffix, content) ==
    [batch_num |-> batch_num, suffix |-> suffix, content |-> content]

\* glob of batch_*.md (merge_md.py) or *.md (merge_markdown)
glob_md(dir) == {f \in dir : f.suffix = "md"}

\* sorted(names): the names as strings, ascending
RECURSIVE sorted_files(_)
sorted_files(files) ==
    IF files = {} THEN <<>>
    ELSE LET first == CHOOSE f \in files :
                          \A g \in files \ {f} :
                              StrLess(BatchFileName(f.batch_num),
                                      BatchFileName(g.batch_num))
         IN  <<first>> \o sorted_files(files \ {first})

NoDocument == [header |-> "none", parts |-> <<>>]

\* the header, then the stripped content of each file that has any
MergedDocument(chap_files) ==
    LET HasContent(f) == f.content # "blank"
        kept == SelectSeq(chap_files, HasContent)
    IN  [header |-> "fixed", parts |-> [i \in 1..Len(kept) |-> kept[i].batch_num]]

Init_mg ==
    /\ mg_tool \in {"merge_md", "merge_markdown"}
    /\ \E present \in SUBSET MergeIds, backups \in SUBSET {1, MaxBatchId},
          blanks \in SUBSET {2} :
           mg_dir = {DirFile(n, "md", IF n \in blanks THEN "blank" ELSE "text") :
                         n \in present}
                    \cup {DirFile(n, "md.backup", "text") : n \in backups}
    /\ mg_doc = NoDocument

Idle_mg ==
    /\ mg_tool = "none"
    /\ mg_dir = {}
    /\ mg_doc = NoDocument

\* if not chap_files: nothing is written
MergeNothing ==
    /\ mg_tool \in {"merge_md", "merge_markdown"}
    /\ glob_md(mg_dir) = {}
    /\ mg_tool' = "done"
    /\ UNCHANGED <<mg_dir, mg_doc>>
    /\ UNCHANGED others_mg

\* the files are read in sorted order and written after the header
Merge ==
    /\ mg_tool \in {"merge_md", "merge_markdown"}
    /\ glob_md(mg_dir) # {}
    /\ mg_doc' = MergedDocument(sorted_files(glob_md(mg_dir)))
    /\ mg_tool' = "done"
    /\ UNCHANGED mg_dir
    /\ UNCHANGED others_mg

Next_mg ==
    \/ MergeNothing
    \/ Merge

\* C20: the regenerated final document is the fixed header followed by the
\* outputs of the batches of the directory in increasing batch id order,
\* whatever the number of batches; backup files are not part of it.
C20_DocumentInBatchOrder ==
    mg_doc # NoDocument =>
        /\ mg_doc.header = "fixed"
        /\ \A i, j \in 1..Len(mg_doc.parts) :
               i < j => mg_doc.parts[i] < mg_doc.parts[j]
        /\ \A i \in 1..Len(mg_doc.parts) :
               DirFile(mg_doc.parts[i], "md", "text") \in mg_dir

-----------------------------------------------------------------------------
(* The segmenter: wrap_batch_with_tags of translator.py and                 *)
(* translator_doubao.py. The tagged text is the sequence of its tagged      *)
(* units, which the code joins by a blank line.                             *)

\* the longest batch text looked at
MaxBatchText == 5

BatchChars == {"a", "b", " ", "\n"}

\* the end of the match of \n\s*\n (translator.py), or of \n\s*\n|\n
\* (translator_doubao.py), that starts at position i; 0 when there is none
SeparatorEnd(s, i, impl) ==
    IF s[i] # "\n" THEN 0
    ELSE LET ends == {j \in (i + 1)..Len(s) :
                         /\ s[j] = "\n"
                         /\ \A m \in (i + 1)..(j - 1) : IsSpace(s[m])}
         IN  IF ends # {} THEN Max(ends)
             ELSE IF impl = "doubao" THEN i
             ELSE 0

\* re.split: the pieces between the matches, found from left to right
RECURSIVE re_split(_, _, _, _)
re_split(s, start, i, impl) ==
    IF i > Len(s) THEN <<SubSeq(s, start, Len(s))>>
    ELSE IF SeparatorEnd(s, i, impl) # 0
    THEN <<SubSeq(s, start, i - 1)>> \o
         re_split(s, SeparatorEnd(s, i, impl) + 1, SeparatorEnd(s, i, impl) + 1, impl)
    ELSE re_split(s, start, i + 1, impl)

\* [seg.strip() for seg in re.split(...) if seg.strip()]
Segments(raw_text, impl) ==
    LET pieces   == re_split(raw_text, 1, 1, impl)
        stripped == [p \in 1..Len(pieces) |-> strip(pieces[p])]
    IN  SelectSeq(stripped, LAMBDA seg : seg # <<>>)

\* a numbering that starts at 0
TagIndex_FromZero(position) == position - 1

\* enumerate(segments, start=1)
TagIndex(position) == position

\* f"<c{idx}>{seg}</c{idx}>"
Tagged(open, seg, close) == [open |-> open, seg |-> seg, close |-> close]

wrap_batch_with_tags(raw_text, impl) ==
    LET segments == Segments(raw_text, impl)
    IN  [p \in 1..Len(segments) |->
            Tagged(TagIndex(p), segments[p], TagIndex(p))]

Init_sg ==
    /\ sg_impl \in {"translator", "doubao"}
    /\ sg_text \in SeqsUpTo(BatchChars, MaxBatchText)
    /\ sg_out = NoCall

Idle_sg ==
    /\ sg_impl = "none"
    /\ sg_text = <<>>
    /\ sg_out = NoCall

WrapTranslator ==
    /\ sg_impl = "translator"
    /\ sg_out = NoCall
    /\ sg_out' = [impl |-> "translator",
                  tagged |-> wrap_batch_with_tags(sg_text, "translator")]
    /\ UNCHANGED <<sg_impl, sg_text>>
    /\ UNCHANGED others_sg

\* translator_doubao.py returns a blank text as it is: no unit is tagged
WrapDoubao ==
    /\ sg_impl = "doubao"
    /\ sg_out = NoCall
    /\ sg_out' = [impl |-> "doubao",
                  tagged |-> IF strip(sg_text) = <<>> THEN <<>>
                             ELSE wrap_batch_with_tags(sg_text, "doubao")]
    /\ UNCHANGED <<sg_impl, sg_text>>
    /\ UNCHANGED others_sg

Next_sg == WrapTranslator \/ WrapDoubao

\* the characters of s that are not white space, in order
NonSpace(s) == SelectSeq(s, LAMBDA c : ~IsSpace(c))

RECURSIVE Flatten(_)
Flatten(tagged) ==
    IF tagged = <<>> THEN <<>>
    ELSE NonSpace(Head(tagged).seg) \o Flatten(Tail(tagged))

\* C22: wrap_batch_with_tags numbers the non-empty trimmed units of the batch
\* text 1..n in text order, without gap or duplicate, and wraps each unit in
\* an opening and a closing tag of the same index.
C22_TagsContiguous ==
    sg_out # NoCall =>
        LET tagged == sg_out.tagged
        IN  /\ \A p \in 1..Len(tagged) :
                   /\ tagged[p].open = p
                   /\ tagged[p].close = p
                   /\ tagged[p].seg # <<>>
                   /\ strip(tagged[p].seg) = tagged[p].seg
            /\ Flatten(tagged) = NonSpace(sg_text)
            /\ Len(tagged) = Len(Segments(sg_text, sg_impl))

C22_Witness ==
    /\ sg_out # NoCall
    /\ sg_impl = "translator"
    /\ sg_text = <<"a", "\n", "\n", "b", "\n">>
    /\ sg_out.tagged = <<Tagged(1, <<"a">>, 1), Tagged(2, <<"b">>, 2)>>

-----------------------------------------------------------------------------
(* The raw text cache: translator.py caches the text of each batch in       *)
(* raw_content (get_batch_text_with_cache), stitches, tags and sends it;    *)
(* the re-translation tools later read raw_content, tag and send again.     *)
(* A file name is the sequence of its parts, the digits one by one.         *)

\* total_batches of the document
NRawBatches == 2

RawBatches == 1..NRawBatches

\* the text of the pages of a batch
PageTexts ==
    {<<"a">>, <<"a", ".">>, <<"a", "\n", "\n", "b", ".">>, <<" ">>}

DigitChar(d) == <<"0", "1", "2", "3", "4", "5", "6", "7", "8", "9">>[d + 1]

\* f"{batch_num:03d}"
BatchDigits(batch_num) ==
    LET digits == ZeroPad(Decimal(batch_num), BatchIdWidth)
    IN  [i \in 1..Len(digits) |-> DigitChar(digits[i])]

\* get_batch_text_with_cache: f"{batch_id}_raw_text.txt"
RawCacheName(batch_num) ==
    <<"batch_">> \o BatchDigits(batch_num) \o <<"_raw_text", ".txt">>

\* raw_file of retranslate_batch: f"batch_{batch_num:03d}.txt" in
\* retranslate_batch.py, f"batch_{batch_num:03d}_raw_text.txt" in
\* retranslate_diff_batches.py
RawFileName(tool, batch_num) ==
    IF tool = "retranslate_batch"
    THEN <<"batch_">> \o BatchDigits(batch_num) \o <<".txt">>
    ELSE <<"batch_">> \o BatchDigits(batch_num) \o <<"_raw_text", ".txt">>

RawFile(name, text) == [name |-> name, text |-> text]

\* the files of dir with this name
Named(dir, name) == {f \in dir : f.name = name}

\* get_batch_text_with_cache: the cached text if the file has any, else the
\* text of the pages, which is written to the cache unless the write fails
get_batch_text_with_cache(pages, batch_num, cache_dir, write) ==
    LET cache_file == RawCacheName(batch_num)
        cached     == {f \in Named(cache_dir, cache_file) : strip(f.text) # <<>>}
        raw_eng    == pages[batch_num]
    IN  IF cached # {}
        THEN [text |-> (CHOOSE f \in cached : TRUE).text, dir |-> cache_dir]
        ELSE [text |-> raw_eng,
              dir  |-> IF write = "ok"
                       THEN (cache_dir \ Named(cache_dir, cache_file))
                                \cup {RawFile(cache_file, raw_eng)}
                       ELSE cache_dir]

NotSent == [sent |-> FALSE, tagged |-> <<>>]

NoRedispatch == [batch |-> 0, status |-> "none", raw |-> <<>>, tagged |-> <<>>]

Init_rc ==
    /\ rc_tool \in Retranslators
    /\ rc_pages \in [RawBatches -> PageTexts]
    /\ rc_dir = {}
    /\ rc_k = 1
    /\ rc_pc = "main_run"
    /\ rc_sent = [k \in RawBatches |-> NotSent]
    /\ rc_resent = NoRedispatch

Idle_rc ==
    /\ rc_tool = "none"
    /\ rc_pages = <<>>
    /\ rc_dir = {}
    /\ rc_k = 0
    /\ rc_pc = "idle"
    /\ rc_sent = <<>>
    /\ rc_resent = NoRedispatch

\* translator.py, one batch of the loop up to the request: the raw text, the
\* completion of its last sentence from the next batch, the tags
MainBatch(write, write_next) ==
    /\ rc_pc = "main_run"
    /\ rc_k \in RawBatches
    /\ \E own \in {get_batch_text_with_cache(rc_pages, rc_k, rc_dir, write)} :
           IF strip(own.text) = <<>>
           THEN \* the batch is empty: nothing is sent
                /\ write_next = "ok"
                /\ rc_dir' = own.dir
                /\ UNCHANGED rc_sent
           ELSE IF rc_k < NRawBatches
           THEN \E next \in {get_batch_text_with_cache(rc_pages, rc_k + 1,
                                                       own.dir, write_next)} :
                    /\ rc_dir' = next.dir
                    /\ rc_sent' = [rc_sent EXCEPT ![rc_k] =
                           [sent   |-> TRUE,
                            tagged |-> wrap_batch_with_tags(
                                           ensure_sentence_completion(own.text,
                                                                      next.text),
                                           "translator")]]
           ELSE /\ write_next = "ok"
                /\ rc_dir' = own.dir
                /\ rc_sent' = [rc_sent EXCEPT ![rc_k] =
                       [sent   |-> TRUE,
                        tagged |-> wrap_batch_with_tags(own.text, "translator")]]
    /\ rc_k' = rc_k + 1
    /\ UNCHANGED <<rc_tool, rc_pages, rc_pc, rc_resent>>
    /\ UNCHANGED others_rc

\* the run of translator.py is over; a re-translation tool is started
EndMainRun ==
    /\ rc_pc = "main_run"
    /\ rc_k = NRawBatches + 1
    /\ rc_pc' = "retranslate"
    /\ UNCHANGED <<rc_tool, rc_pages, rc_dir, rc_k, rc_sent, rc_resent>>
    /\ UNCHANGED others_rc

\* retranslate_batch(batch_num) up to the request: the raw file is looked
\* up, read and tagged
Redispatch(batch_num) ==
    /\ rc_pc = "retranslate"
    /\ LET raw_file == Named(rc_dir, RawFileName(rc_tool, batch_num))
       IN  rc_resent' =
               IF raw_file = {}
               THEN [batch |-> batch_num, status |-> "False",
                     raw |-> <<>>, tagged |-> <<>>]
               ELSE LET raw_content == (CHOOSE f \in raw_file : TRUE).text
                    IN  [batch  |-> batch_num, status |-> "dispatched",
                         raw    |-> raw_content,
                         tagged |-> wrap_batch_with_tags(raw_content, "translator")]
    /\ UNCHANGED <<rc_tool, rc_pages, rc_dir, rc_k, rc_pc, rc_sent>>
    /\ UNCHANGED others_rc

Next_rc ==
    \/ \E write \in WriteOutcomes, write_next \in WriteOutcomes :
           MainBatch(write, write_next)
    \/ EndMainRun
    \/ \E batch_num \in RawBatches : Redispatch(batch_num)

\* C36: for every batch K whose raw text the main run cached, both
\* re-translation tools read that same cached raw text for K: the name
\* get_batch_text_with_cache writes is the name retranslate_batch looks up.
C36_SameRawCacheKey ==
    \A K \in RawBatches :
        (/\ rc_resent.batch = K
         /\ Named(rc_dir, RawCacheName(K)) # {}) =>
            /\ rc_resent.status = "dispatched"
            /\ RawFile(RawCacheName(K), rc_resent.raw) \in rc_dir

\* C37: re-translating batch K with retranslate_diff_batches.py sends exactly
\* the tagged segments (same count, same contents, same indices) that
\* translator.py sent for K in the original run, also when the original run
\* extended the text of K by stitching from batch K+1.
C37_SameSegmentsResent ==
    \A K \in RawBatches :
        (/\ rc_tool = "retranslate_diff_batches"
         /\ rc_resent.batch = K
         /\ rc_resent.status = "dispatched"
         /\ rc_sent[K].sent) =>
            rc_resent.tagged = rc_sent[K].tagged

-----------------------------------------------------------------------------
(* The page ranges of the batches: translator.py computes p_start and       *)
(* p_end of each batch in its loop and again for the failed batches of      *)
(* retry_config.json.                                                       *)

\* the largest total_pages and PAGES_PER_BATCH looked at
MaxTotalPages == 5

MaxPagesPerBatch == 3

\* a count that drops the last, shorter batch
total_batches_Floor(total_pages, pages_per_batch) ==
    total_pages \div pages_per_batch

\* (total_pages + PAGES_PER_BATCH - 1) // PAGES_PER_BATCH
total_batches(total_pages, pages_per_batch) ==
    (total_pages + pages_per_batch - 1) \div pages_per_batch

\* p_start, p_end of the batch loop
BatchPages(batch_num, pages_per_batch, total_pages) ==
    <<(batch_num - 1) * pages_per_batch + 1,
      Min({batch_num * pages_per_batch, total_pages})>>

\* p_start, p_end of the retry configuration
RetryPages(batch_num, pages_per_batch, total_pages) ==
    <<(batch_num - 1) * pages_per_batch + 1,
      Min({batch_num * pages_per_batch, total_pages})>>

\* retry_batches: one entry per failed batch, in the order of MISSING_DICT
retry_batches(failed_batches, pages_per_batch, total_pages) ==
    LET ids == sorted(failed_batches)
    IN  [i \in 1..Len(ids) |->
            [batch_num |-> ids[i],
             pages     |-> RetryPages(ids[i], pages_per_batch, total_pages)]]

Init_pg ==
    /\ pg_total \in 1..MaxTotalPages
    /\ pg_per_batch \in 1..MaxPagesPerBatch
    /\ pg_k = 1
    /\ pg_pc = "loop"
    /\ pg_ranges = <<>>
    /\ pg_failed = {}
    /\ pg_retry = <<>>

Idle_pg ==
    /\ pg_total = 0
    /\ pg_per_batch = 0
    /\ pg_k = 0
    /\ pg_pc = "idle"
    /\ pg_ranges = <<>>
    /\ pg_failed = {}
    /\ pg_retry = <<>>

\* one batch of the loop: its page range; the batch fails or not
PageBatch(fails) ==
    /\ pg_pc = "loop"
    /\ pg_k \in 1..total_batches(pg_total, pg_per_batch)
    /\ pg_ranges' = Append(pg_ranges, BatchPages(pg_k, pg_per_batch, pg_total))
    /\ pg_failed' = IF fails THEN pg_failed \cup {pg_k} ELSE pg_failed
    /\ pg_k' = pg_k + 1
    /\ UNCHANGED <<pg_total, pg_per_batch, pg_pc, pg_retry>>
    /\ UNCHANGED others_pg

\* after the loop: if failed_batches, the retry configuration
WriteRetryConfig ==
    /\ pg_pc = "loop"
    /\ pg_k = total_batches(pg_total, pg_per_batch) + 1
    /\ pg_pc' = "done"
    /\ pg_retry' = IF pg_failed # {}
                   THEN retry_batches(pg_failed, pg_per_batch, pg_total)
                   ELSE pg_retry
    /\ UNCHANGED <<pg_total, pg_per_batch, pg_k, pg_ranges, pg_failed>>
    /\ UNCHANGED others_pg

Next_pg ==
    \/ \E fails \in BOOLEAN : PageBatch(fails)
    \/ WriteRetryConfig

\* C38: for every total_pages >= 1 and pages_per_batch >= 1 the page ranges
\* [p_start, p_end] computed for the batches 1..total_batches are non-empty,
\* pairwise disjoint, contiguous in batch order and together cover the pages
\* 1..total_pages exactly, and the retry configuration reports the same range
\* for a failed batch.
C38_PageRangesPartition ==
    LET PagesIn(r) == r[1]..r[2]
        n          == Len(pg_ranges)
    IN  /\ \A i \in 1..n : pg_ranges[i][1] <= pg_ranges[i][2]
        /\ \A i, j \in 1..n :
               i # j => PagesIn(pg_ranges[i]) \cap PagesIn(pg_ranges[j]) = {}
        /\ n > 0 => pg_ranges[1][1] = 1
        /\ \A i \in 1..(n - 1) : pg_ranges[i + 1][1] = pg_ranges[i][2] + 1
        /\ \A i \in 1..n : pg_ranges[i][2] <= pg_total
        /\ pg_pc = "done" =>
               /\ n >= 1
               /\ UNION {PagesIn(pg_ranges[i]) : i \in 1..n} = 1..pg_total
               /\ {pg_retry[e].batch_num : e \in 1..Len(pg_retry)} = pg_failed
               /\ \A e \in 1..Len(pg_retry) :
                      pg_retry[e].pages = pg_ranges[pg_retry[e].batch_num]

C38_Witness ==
    /\ pg_pc = "done"
    /\ pg_total = 5
    /\ pg_per_batch = 2
    /\ pg_ranges = <<<<1, 2>>, <<3, 4>>, <<5, 5>>>>
    /\ pg_retry = <<[batch_num |-> 3, pages |-> <<5, 5>>]>>

-----------------------------------------------------------------------------
vars ==
    <<vars_st, vars_vl, vars_cl, vars_rn, vars_rt, vars_mg, vars_sg, vars_rc,
      vars_pg>>

InitStitch ==
    Init_st /\ Idle_vl /\ Idle_cl /\ Idle_rn /\ Idle_rt /\ Idle_mg /\ Idle_sg /\ Idle_rc
    /\ Idle_pg

InitValidate ==
    Init_vl /\ Idle_st /\ Idle_cl /\ Idle_rn /\ Idle_rt /\ Idle_mg /\ Idle_sg /\ Idle_rc
    /\ Idle_pg

InitCall ==
    Init_cl /\ Idle_st /\ Idle_vl /\ Idle_rn /\ Idle_rt /\ Idle_mg /\ Idle_sg /\ Idle_rc
    /\ Idle_pg

InitRun ==
    Init_rn /\ Idle_st /\ Idle_vl /\ Idle_cl /\ Idle_rt /\ Idle_mg /\ Idle_sg /\ Idle_rc
    /\ Idle_pg

InitRetranslate ==
    Init_rt /\ Idle_st /\ Idle_vl /\ Idle_cl /\ Idle_rn /\ Idle_mg /\ Idle_sg /\ Idle_rc
    /\ Idle_pg

InitMerge ==
    Init_mg /\ Idle_st /\ Idle_vl /\ Idle_cl /\ Idle_rn /\ Idle_rt /\ Idle_sg /\ Idle_rc
    /\ Idle_pg

InitSegment ==
    Init_sg /\ Idle_st /\ Idle_vl /\ Idle_cl /\ Idle_rn /\ Idle_rt /\ Idle_mg /\ Idle_rc
    /\ Idle_pg

InitRawCache ==
    Init_rc /\ Idle_st /\ Idle_vl /\ Idle_cl /\ Idle_rn /\ Idle_rt /\ Idle_mg /\ Idle_sg
    /\ Idle_pg

InitPages ==
    Init_pg /\ Idle_st /\ Idle_vl /\ Idle_cl /\ Idle_rn /\ Idle_rt /\ Idle_mg /\ Idle_sg
    /\ Idle_rc

SpecStitch == InitStitch /\ [][Next_st]_vars

SpecValidate == InitValidate /\ [][Next_vl]_vars

SpecCall == InitCall /\ [][Next_cl]_vars

SpecRun == InitRun /\ [][Next_rn]_vars

\* the batch loop is sequential code and every oracle request returns or
\* times out: a step that can be taken is taken
SpecRunLive == InitRun /\ [][Next_rn]_vars /\ WF_vars(Next_rn)

SpecRetranslate == InitRetranslate /\ [][Next_rt]_vars

SpecMerge == InitMerge /\ [][Next_mg]_vars

SpecSegment == InitSegment /\ [][Next_sg]_vars

SpecRawCache == InitRawCache /\ [][Next_rc]_vars

SpecPages == InitPages /\ [][Next_pg]_vars

=============================================================================
